---- MODULE Spec2Model ----
(***************************************************************************)
(* pg8000 (pg8000/dbapi.py): the extended-query engine of one Connection   *)
(* shared by several threads, each driving its own Cursor.                 *)
(*                                                                         *)
(* Client side (translated from dbapi.py): Cursor.execute / fetchone /     *)
(* close, Connection.begin / commit / rollback / close,                    *)
(* PreparedStatement.__init__ / execute / read_tuple / close,              *)
(* Connection.parse / bind / close_portal / close_statement /              *)
(* handle_messages and the message handlers.  One step of a thread is one  *)
(* lock operation, one write of a request burst, or one iteration of the   *)
(* dispatch loop.                                                          *)
(*                                                                         *)
(* Backend side (environment): a PostgreSQL v3 backend that answers each   *)
(* frontend message as the protocol prescribes; its answer to a burst is   *)
(* appended to the client's receive buffer when the burst is written.      *)
(*                                                                         *)
(* Names are modelled as pairs <<prefix, number>>: "" is <<"", 0>>,        *)
(* "pg8000_statement_3" is <<"pg8000_statement_", 3>>, and so on.          *)
(***************************************************************************)
EXTENDS Integers, Sequences, FiniteSets, TLC

\* ---------------------------------------------------------------- bounds
NThreads == 2
MaxOps == 3
MaxOpsEach == 1
MaxRows == 2
MaxSets == 2
MaxCacheSize == 2
MaxChunks == 2
MaxNotifies == 2
MaxNotifyOps == 2
MaxAuthCode == 10
MaxStatus == 2

\* The size of the buffer handle_COPY_IN_RESPONSE reads the stream into.
ChunkSize == 8192

Threads == 1..NThreads

\* ----------------------------------------------------------------- names
NoneName == <<"None", 0>>
UnnamedStmt == <<"", 0>>
StmtName(i) == <<"pg8000_statement_", i>>
PortalName(i) == <<"pg8000_portal_", i>>

\* ------------------------------------------------------------------- SQL
\* A query text: its kind, the number of rows it yields (select), and the
\* cursor that wrote it (two cursors never send the same text).
Sql(k, n, c) == [k |-> k, n |-> n, c |-> c]
NoSql == Sql("none", 0, 0)
BeginSql == Sql("begin", 0, 0)
CommitSql == Sql("commit", 0, 0)
RollbackSql == Sql("rollback", 0, 0)

HasRows(sql) == sql.k \in {"select", "exec_error"}
TxExit(sql) == sql.k \in {"commit", "rollback"}

\* ------------------------------------------------------ frontend messages
\* m: message type; t: 'S'/'P' of Describe and Close; n: the name the
\* message carries first (statement for Parse, portal for Bind/Execute);
\* s: the source statement of Bind; k: the row limit of Execute.
FMsg(m, t, n, s, k, sql) == [m |-> m, t |-> t, n |-> n, s |-> s, k |-> k, sql |-> sql]
MParse(name, sql) == FMsg("Parse", "", name, NoneName, 0, sql)
MDescribe(typ, name) == FMsg("Describe", typ, name, NoneName, 0, NoSql)
MBind(portal, stmt) == FMsg("Bind", "", portal, stmt, 0, NoSql)
MExecute(portal, limit) == FMsg("Execute", "", portal, NoneName, limit, NoSql)
MClose(typ, name) == FMsg("Close", typ, name, NoneName, 0, NoSql)
MSync == FMsg("Sync", "", NoneName, NoneName, 0, NoSql)
MFlush == FMsg("Flush", "", NoneName, NoneName, 0, NoSql)
MTerminate == FMsg("Terminate", "", NoneName, NoneName, 0, NoSql)
\* CopyData carries the bytes [from + 1 .. from + len] of the stream that is
\* copied in: n names the first byte's offset, k is the payload's length.
MCopyData(from, len) == FMsg("CopyData", "", <<"bytes", from>>, NoneName, len, NoSql)
MCopyDone == FMsg("CopyDone", "", NoneName, NoneName, 0, NoSql)
MStartup == FMsg("Startup", "", NoneName, NoneName, 0, NoSql)
MPassword == FMsg("Password", "", NoneName, NoneName, 0, NoSql)

\* ------------------------------------------------------- backend messages
\* tag is the wire tag; p is a portal name (DataRow), a and b are numbers.
\* st is the status byte of ReadyForQuery and the code field of
\* ErrorResponse (the bytes of its five characters).
BMsg(tag, p, a, b) == [tag |-> tag, p |-> p, a |-> a, b |-> b, st |-> ""]
B0(tag) == BMsg(tag, NoneName, 0, 0)
BReady(st) == [B0("Z") EXCEPT !.st = st]
BError(code) == [B0("E") EXCEPT !.st = code]
\* AuthenticationRequest carries its code in a; ParameterStatus carries its
\* key and value in p.
BAuth(code) == BMsg("R", NoneName, code, 0)
BStatus(key, value) == BMsg("S", <<key, value>>, 0, 0)

\* ---------------------------------------------------------------- backend
\* The backend's session state: tx is the transaction status reported by
\* ReadyForQuery ("I" idle, "T" in a transaction block, "E" in a failed
\* block); skip is set by an error and cleared by Sync (messages in between
\* are discarded); stmts and portals are the prepared statements and portals
\* that exist; out collects the answers to the burst being processed.
Put(f, k, v) == [x \in DOMAIN f \cup {k} |-> IF x = k THEN v ELSE f[x]]
Drop(f, k) == [x \in DOMAIN f \ {k} |-> f[x]]
NoStmts == [x \in {} |-> NoSql]
NoPortals == [x \in {} |-> [sql |-> NoSql, sent |-> 0]]

SrvOut(s, msgs) == [s EXCEPT !.out = s.out \o msgs]

\* ErrorResponse: the rest of the burst is skipped up to Sync; a transaction
\* block becomes a failed block, an implicit transaction is rolled back.
SrvError(s) ==
    [s EXCEPT !.skip = TRUE,
              !.tx = IF s.tx = "T" THEN "E" ELSE s.tx,
              !.portals = IF s.tx = "I" THEN NoPortals ELSE s.portals,
              !.out = Append(s.out, BError("42601"))]

SrvAborted(s, sql) == s.tx = "E" /\ ~TxExit(sql)

SrvParse(s, m) ==
    IF m.sql.k = "syntax_error" \/ SrvAborted(s, m.sql)
    THEN SrvError([s EXCEPT !.stmts = IF m.n = UnnamedStmt
                                      THEN Drop(s.stmts, m.n) ELSE s.stmts])
    ELSE SrvOut([s EXCEPT !.stmts = Put(s.stmts, m.n, m.sql)], <<B0("1")>>)

\* RowDescription carries the number of columns (1 for every query with a
\* result set in this model); NoData answers a query without result set.
SrvDescribe(s, m) ==
    IF m.t = "S"
    THEN IF m.n \notin DOMAIN s.stmts THEN SrvError(s)
         ELSE SrvOut(s, <<B0("t"),
                          IF HasRows(s.stmts[m.n])
                          THEN BMsg("T", NoneName, 1, 0) ELSE B0("n")>>)
    ELSE IF m.n \notin DOMAIN s.portals THEN SrvError(s)
         ELSE SrvOut(s, <<IF HasRows(s.portals[m.n].sql)
                          THEN BMsg("T", NoneName, 1, 0) ELSE B0("n")>>)

SrvBind(s, m) ==
    IF m.s \notin DOMAIN s.stmts THEN SrvError(s)
    ELSE IF s.stmts[m.s].k = "bind_error" \/ SrvAborted(s, s.stmts[m.s])
    THEN SrvError(s)
    ELSE SrvOut([s EXCEPT !.portals =
                     Put(s.portals, m.n, [sql |-> s.stmts[m.s], sent |-> 0])],
                <<B0("2")>>)

\* Execute of a query with rows: at most m.k rows (all of them when m.k = 0);
\* PortalSuspended exactly when the row limit was reached, CommandComplete
\* otherwise.  CommandComplete is BMsg("C", _, counted, count): counted = 1
\* for the tags that end in a row count.
SrvRows(p, from, k) == [i \in 1..k |-> BMsg("D", p, from + i, 0)]

\* COPY ... FROM STDIN is answered by CopyInResponse and the backend enters
\* copy-in mode (copy; copied counts the bytes received since).  COPY ... TO
\* STDOUT of n rows is answered by CopyOutResponse, one CopyData per row (a
\* is the row's number), CopyDone and CommandComplete.
SrvCopyOut(n) == [i \in 1..n |-> BMsg("d", NoneName, i, 0)]

SrvExecute(s, m) ==
    IF m.n \notin DOMAIN s.portals THEN SrvError(s)
    ELSE LET po == s.portals[m.n]
             rem == po.sql.n - po.sent
             k == IF m.k = 0 \/ rem < m.k THEN rem ELSE m.k
         IN  IF SrvAborted(s, po.sql) \/ po.sql.k = "exec_error" THEN SrvError(s)
             ELSE CASE po.sql.k = "select" ->
                         SrvOut([s EXCEPT !.portals[m.n].sent = po.sent + k],
                                SrvRows(m.n, po.sent, k) \o
                                <<IF m.k > 0 /\ k = m.k THEN B0("s")
                                  ELSE BMsg("C", NoneName, 1, k)>>)
                    [] po.sql.k = "insert" ->
                         SrvOut(s, <<BMsg("C", NoneName, 1, 1)>>)
                    [] po.sql.k = "begin" ->
                         SrvOut([s EXCEPT !.tx = "T"], <<BMsg("C", NoneName, 0, 0)>>)
                    [] po.sql.k \in {"commit", "rollback"} ->
                         SrvOut([s EXCEPT !.tx = "I", !.portals = NoPortals],
                                <<BMsg("C", NoneName, 0, 0)>>)
                    [] po.sql.k = "copy_from" ->
                         SrvOut([s EXCEPT !.copy = TRUE, !.copied = 0], <<B0("G")>>)
                    [] po.sql.k = "copy_to" ->
                         SrvOut(s, <<B0("H")>> \o SrvCopyOut(po.sql.n) \o
                                   <<B0("c"), BMsg("C", NoneName, 1, po.sql.n)>>)
                    [] OTHER -> \* the empty query string: EmptyQueryResponse
                         SrvOut(s, <<B0("I")>>)

SrvClose(s, m) ==
    SrvOut(IF m.t = "S" THEN [s EXCEPT !.stmts = Drop(s.stmts, m.n)]
           ELSE [s EXCEPT !.portals = Drop(s.portals, m.n)],
           <<B0("3")>>)

\* Sync ends the implicit transaction (its portals go) and answers
\* ReadyForQuery with the transaction status.
SrvSync(s) ==
    SrvOut([s EXCEPT !.skip = FALSE,
                     !.portals = IF s.tx = "I" THEN NoPortals ELSE s.portals],
           <<BReady(s.tx)>>)

\* In copy-in mode the backend ignores Flush and Sync, takes CopyData, and
\* leaves the mode at CopyDone (answered by CommandComplete with the count
\* of what it received: rows of one byte); any other message aborts the
\* copy.  Outside copy-in mode CopyData and CopyDone are ignored.
SrvCopyIn(s, m) ==
    CASE m.m \in {"Sync", "Flush"} -> s
      [] m.m = "CopyData" -> [s EXCEPT !.copied = @ + m.k]
      [] m.m = "CopyDone" ->
             SrvOut([s EXCEPT !.copy = FALSE, !.copied = 0],
                    <<BMsg("C", NoneName, 1, s.copied)>>)
      [] OTHER -> SrvError([s EXCEPT !.copy = FALSE, !.copied = 0])

\* Startup: the backend asks for the authentication its plan holds (code 0
\* is AuthenticationOk; code -1 stands for refusing the session at once), checks
\* the PasswordMessage that answers an MD5 request, and after
\* AuthenticationOk reports its parameters, its key data and ReadyForQuery.
\* A refused session gets ErrorResponse and nothing more.
NoPlan == [code |-> 0, ok |-> TRUE, status |-> <<>>, error |-> ""]

SrvWelcome(s) ==
    SrvOut(s, <<BAuth(0)>> \o s.plan.status \o <<B0("K"), BReady("I")>>)

SrvRefuse(s) == SrvOut([s EXCEPT !.closed = TRUE], <<BError(s.plan.error)>>)

SrvStartup(s, m) ==
    IF m.m = "Startup"
    THEN IF s.plan.code = -1 THEN SrvRefuse(s)
         ELSE IF s.plan.code = 0 THEN SrvWelcome(s)
         ELSE SrvOut(s, <<BAuth(s.plan.code)>>)
    ELSE IF s.plan.ok THEN SrvWelcome(s) ELSE SrvRefuse(s)

SrvStep(s, m) ==
    CASE m.m \in {"Startup", "Password"} -> SrvStartup(s, m)
      [] s.copy -> SrvCopyIn(s, m)
      [] m.m \in {"CopyData", "CopyDone"} -> s
      [] m.m = "Sync" -> SrvSync(s)
      [] m.m = "Flush" -> s
      [] m.m = "Terminate" -> [s EXCEPT !.closed = TRUE]
      [] s.skip -> s
      [] m.m = "Parse" -> SrvParse(s, m)
      [] m.m = "Describe" -> SrvDescribe(s, m)
      [] m.m = "Bind" -> SrvBind(s, m)
      [] m.m = "Execute" -> SrvExecute(s, m)
      [] m.m = "Close" -> SrvClose(s, m)

RECURSIVE SrvBurst(_, _)
SrvBurst(s, msgs) ==
    IF msgs = <<>> THEN s ELSE SrvBurst(SrvStep(s, Head(msgs)), Tail(msgs))

\* NotificationResponse: a is the notifying backend's pid, p the bytes of
\* the condition name in the client's encoding.
BNotification(pid, condition) == BMsg("A", condition, pid, 0)

\* ----------------------------------------------------------------- client
\* No module-level function is under test.
NoPure == [op |-> "none"]

VARIABLES
    pc,                \* per thread: where it stands in its current call
    ctx,               \* per thread: the call's local variables
    cur,               \* per thread: its Cursor (_stmt, _conn, _row_count)
    ps,                \* the PreparedStatement objects
    conn,              \* the Connection's fields
    sockLock,          \* Connection._sock_lock: 0 or the holding thread
    unnamedLock,       \* Connection._unnamed_prepared_statement_lock
    psLock,            \* PreparedStatement._lock of each statement
    statement_number,  \* module-level counter
    portal_number,     \* module-level counter
    row_cache_size,    \* PreparedStatement.row_cache_size
    srv,               \* the backend's session state
    inbox,             \* bytes the backend has sent and the client not read
    opsLeft,           \* per thread: calls the application may still start
    wire,              \* observation: the exchange in flight and the last I/O
    emptyQueries,      \* whether the application may send the empty query
    pure               \* the module-level function under test and its result

connVars == <<pc, ctx, cur, ps, conn, sockLock, unnamedLock, psLock,
              statement_number, portal_number, row_cache_size, srv, inbox,
              opsLeft, wire, emptyQueries>>

vars == <<connVars, pure>>

\* The PreparedStatement objects: the connection's three, each cursor's
\* current statement and the one its running execute is constructing, and
\* one statement that the application prepares by name.
BeginPs == <<"_begin", 0>>
CommitPs == <<"_commit", 0>>
RollbackPs == <<"_rollback", 0>>
NoPs == <<"None", 0>>
CurPs(t, i) == <<IF i = 0 THEN "stmt_a" ELSE "stmt_b", t>>
UserPs == <<"prepared", 0>>
PsIds == {BeginPs, CommitPs, RollbackPs}
         \cup {CurPs(t, i) : t \in Threads, i \in {0, 1}}
         \cup {UserPs}

\* Row descriptions: NoneDesc is None, otherwise the number of columns.
NoneDesc == -1

\* The stream argument of execute.  kind is "unset" (the statement has no
\* stream attribute before its first execute), "None" or "file".  A file
\* that is read holds len bytes, numbered 1..len, of which pos have been
\* read; one read returns at most cap bytes (a pipe may return fewer than
\* were asked for).  A file that is written holds the payloads written.
Stream(kind, len, cap) ==
    [kind |-> kind, len |-> len, cap |-> cap, pos |-> 0, written |-> <<>>]
UnsetStream == Stream("unset", 0, 0)
NoneStream == Stream("None", 0, 0)

\* A PreparedStatement before __init__ has run on it.
\* n_exec, n_susp, n_cc, n_err observe the Execute messages sent for the
\* current portal and the PortalSuspended, CommandComplete and ErrorResponse
\* messages received for it.
NoObject ==
    [statement_name |-> NoneName, portal_name |-> NoneName, sql |-> NoSql,
     cached_rows |-> <<>>, row_count |-> -1, portal_suspended |-> FALSE,
     statement_row_desc |-> NoneDesc, portal_row_desc |-> NoneDesc,
     n_exec |-> 0, n_susp |-> 0, n_cc |-> 0, n_err |-> 0,
     stream |-> UnsetStream]

\* Connection.__init__, lines 1055-1057: the three statements are prepared
\* by name; NoData answered their Describe, so statement_row_desc is [].
ConnPs(i, sql) ==
    [NoObject EXCEPT !.statement_name = StmtName(i), !.sql = sql,
                     !.statement_row_desc = 0]

NoCall ==
    \* op: the application's call; ps, meth: the statement and the method of
    \* it that is running; phase: the exchange in progress; error: the error
    \* handle_messages has latched; result, row: what the last call returned
    \* or raised; sets: the parameter sets executemany has still to execute;
    \* last, rfq, hm, unread observe the dispatch loop: the tag it read last,
    \* the ReadyForQuery messages read since execute began, whether the
    \* exception left handle_messages, and the messages it left unread;
    \* stream: the stream argument of execute.
    [op |-> "none", sql |-> NoSql, ps |-> NoPs, meth |-> "none",
     stream |-> NoneStream,
     phase |-> "none", error |-> "none", sets |-> 0, last |-> "", rfq |-> 0,
     result |-> "none", row |-> <<NoneName, 0>>, hm |-> FALSE, unread |-> 0]

\* n_ret and done observe the fetches since the statement's last execute:
\* the rows returned, and whether a fetch has returned None.
NewCursor == [stmt |-> NoPs, closed |-> FALSE, row_count |-> -1, n_ret |-> 0,
              done |-> FALSE]

InitCommon ==
    /\ pc = [t \in Threads |-> "idle"]
    /\ ctx = [t \in Threads |-> NoCall]
    /\ cur = [t \in Threads |-> NewCursor]
    /\ ps = [i \in PsIds |->
               CASE i = BeginPs -> ConnPs(0, BeginSql)
                 [] i = CommitPs -> ConnPs(1, CommitSql)
                 [] i = RollbackPs -> ConnPs(2, RollbackSql)
                 [] OTHER -> NoObject]
    /\ conn = [binding |-> FALSE, in_transaction |-> FALSE,
               autocommit |-> FALSE, ready_status |-> "I", closed |-> FALSE,
               copy_done |-> FALSE, notifies |-> <<>>, fired |-> 0,
               PY2 |-> FALSE, password |-> "ascii", client_encoding |-> "utf8",
               integer_datetimes |-> TRUE, status_fired |-> 0, faults |-> 0]
    /\ sockLock = 0
    /\ unnamedLock = 0
    /\ psLock = [i \in PsIds |-> 0]
    /\ statement_number = 3
    /\ portal_number = 0
    /\ row_cache_size \in 1..MaxCacheSize
    /\ srv = [tx |-> "I", skip |-> FALSE, closed |-> FALSE, out |-> <<>>,
              stmts |-> [n \in {StmtName(0), StmtName(1), StmtName(2)} |->
                            CASE n = StmtName(0) -> BeginSql
                              [] n = StmtName(1) -> CommitSql
                              [] OTHER -> RollbackSql],
              portals |-> NoPortals, copy |-> FALSE, copied |-> 0,
              notified |-> <<>>, plan |-> NoPlan]
    /\ inbox = <<>>
    /\ wire = [owner |-> 0, io |-> 0, burst |-> <<>>]

\* Two threads, each with its own cursor, share the connection.
Init ==
    /\ InitCommon
    /\ opsLeft = [t \in Threads |-> MaxOpsEach]
    /\ emptyQueries = FALSE
    /\ pure = NoPure

\* One thread uses the connection.
InitSeq ==
    /\ InitCommon
    /\ opsLeft = [t \in Threads |-> IF t = 1 THEN MaxOps ELSE 0]
    /\ emptyQueries = FALSE
    /\ pure = NoPure

\* One thread uses the connection and may send the empty query string.
InitEmptyQuery ==
    /\ InitCommon
    /\ opsLeft = [t \in Threads |-> IF t = 1 THEN MaxOps ELSE 0]
    /\ emptyQueries = TRUE
    /\ pure = NoPure

\* ------------------------------------------------------------ the socket
\* The thread t writes a burst (one _send_messages call with its flush): the
\* backend's answers are appended to the receive buffer.  wire.owner is the
\* thread whose exchange is in flight (it wrote a request and has not read
\* the ReadyForQuery ending it); wire.io is the thread that last wrote to or
\* read from the socket.
Net == [srv |-> srv, inbox |-> inbox, wire |-> wire]

NetWrite(net, t, burst) ==
    LET s == SrvBurst(net.srv, burst)
    IN  [srv |-> [s EXCEPT !.out = <<>>],
         inbox |-> net.inbox \o s.out,
         wire |-> [owner |-> IF net.wire.owner = 0 /\ burst # <<MTerminate>>
                             THEN t ELSE net.wire.owner,
                   io |-> t, burst |-> burst]]

NetRead(net, t) ==
    LET m == Head(net.inbox)
        ends == m.tag = "Z" /\ net.wire.owner = t
    IN  [srv |-> net.srv,
         inbox |-> Tail(net.inbox),
         wire |-> [owner |-> IF ends THEN 0 ELSE net.wire.owner,
                   io |-> IF ends THEN 0 ELSE t,
                   burst |-> net.wire.burst]]

\* ------------------------------------------------------ message handlers
\* The tags Connection.message_types maps to a handler.
KnownTags == {"N", "R", "S", "K", "Z", "T", "E", "D", "C", "1", "2", "3",
              "s", "n", "t", "A", "c", "d", "G", "H"}

\* A handler's effect: the statement and connection after it, the burst it
\* wrote (<<>> for none), the exception it raised ("none" for none) and
\* whether that exception is a pg8000.errors.Error (which handle_messages
\* latches when a statement is active) or not (which leaves at once).
Handled(p, c, send, exc, latch) ==
    [ps |-> p, conn |-> c, send |-> send, exc |-> exc, latch |-> latch]

send_EXECUTE(p, limit) ==
    [ps |-> [p EXCEPT !.portal_suspended = FALSE, !.n_exec = p.n_exec + 1],
     burst |-> <<MExecute(p.portal_name, limit), MSync, MFlush>>]

\* The columns are of types and formats in pg_types: the NotSupportedError
\* branches of handle_ROW_DESCRIPTION are not taken.
handle_ROW_DESCRIPTION(m, p, c, rcs) ==
    IF p.statement_row_desc = NoneDesc
    THEN Handled([p EXCEPT !.statement_row_desc = m.a], c, <<>>, "none", TRUE)
    ELSE LET e == send_EXECUTE([p EXCEPT !.portal_row_desc = m.a], rcs)
         IN  Handled(e.ps, c, e.burst, "none", TRUE)

handle_NO_DATA_lazy(m, p, c) ==
    IF p.statement_row_desc = NoneDesc
    THEN Handled([p EXCEPT !.statement_row_desc = 0], c, <<>>, "none", TRUE)
    ELSE Handled([p EXCEPT !.portal_row_desc = 0], c, <<>>, "none", TRUE)

handle_NO_DATA(m, p, c) ==
    IF p.statement_row_desc = NoneDesc
    THEN Handled([p EXCEPT !.statement_row_desc = 0], c, <<>>, "none", TRUE)
    ELSE LET e == send_EXECUTE([p EXCEPT !.portal_row_desc = 0], 0)
         IN  Handled(e.ps, c, e.burst, "none", TRUE)

handle_DATA_ROW_front(m, p, c) ==
    IF p.portal_row_desc = NoneDesc
    THEN Handled(p, c, <<>>, "TypeError", FALSE)
    ELSE Handled([p EXCEPT !.cached_rows = <<<<m.p, m.a>>>> \o p.cached_rows],
                 c, <<>>, "none", TRUE)

handle_DATA_ROW(m, p, c) ==
    IF p.portal_row_desc = NoneDesc
    THEN Handled(p, c, <<>>, "TypeError", FALSE)
    ELSE Handled([p EXCEPT !.cached_rows = Append(p.cached_rows, <<m.p, m.a>>)],
                 c, <<>>, "none", TRUE)

handle_PORTAL_SUSPENDED_lost(m, p, c) ==
    Handled([p EXCEPT !.n_susp = p.n_susp + 1], c, <<>>, "none", TRUE)

handle_PORTAL_SUSPENDED(m, p, c) ==
    Handled([p EXCEPT !.portal_suspended = TRUE, !.n_susp = p.n_susp + 1],
            c, <<>>, "none", TRUE)

handle_COMMAND_COMPLETE_add(m, p, c) ==
    Handled([p EXCEPT !.n_cc = p.n_cc + 1,
                      !.row_count = IF m.a = 0 THEN p.row_count
                                    ELSE p.row_count + m.b],
            c, <<>>, "none", TRUE)

handle_COMMAND_COMPLETE(m, p, c) ==
    Handled([p EXCEPT !.n_cc = p.n_cc + 1,
                      !.row_count = IF m.a = 0 THEN p.row_count
                                    ELSE IF p.row_count = -1 THEN m.b
                                    ELSE p.row_count + m.b],
            c, <<>>, "none", TRUE)

handle_BIND_COMPLETE(m, p, c) ==
    Handled(p, [c EXCEPT !.binding = FALSE], <<>>, "none", TRUE)

handle_READY_FOR_QUERY(m, p, c) ==
    Handled(p, [c EXCEPT !.ready_status = m.st], <<>>, "none", TRUE)

\* msg_dict[RESPONSE_CODE] == "28000": the field is a bytes object, which
\* equals a str of the same characters in Python 2 and no str in Python 3.
BytesEqualStr(bytes, str, PY2) == PY2 /\ bytes = str

ErrorRaised(m, c) ==
    IF BytesEqualStr(m.st, "28000", c.PY2) THEN "InterfaceError"
    ELSE "ProgrammingError"

handle_ERROR_RESPONSE(m, p, c) ==
    LET q == [p EXCEPT !.n_err = p.n_err + 1]
    IN  IF c.binding
        THEN Handled(q, [c EXCEPT !.binding = FALSE], <<MSync>>,
                     ErrorRaised(m, c), TRUE)
        ELSE Handled(q, c, <<>>, ErrorRaised(m, c), TRUE)

\* The exceptions of pg8000.errors that derive from pg8000.errors.Error.
PgErrors == {"ProgrammingError", "InterfaceError", "InternalError",
             "NotSupportedError", "CursorClosedError",
             "CopyQueryWithoutStreamError", "CopyQueryOrTableRequiredError"}

\* "ps.stream is None" and "ps.stream.write": the attribute is missing
\* before the statement's first execute, and None has no write method.
StreamMissing(p) == p.stream.kind # "file"

NoStreamError(p) ==
    IF p.stream.kind = "None" THEN "CopyQueryWithoutStreamError"
    ELSE "AttributeError"

handle_COPY_DONE(m, p, c) ==
    Handled(p, [c EXCEPT !.copy_done = TRUE], <<>>, "none", TRUE)

handle_COPY_OUT_RESPONSE(m, p, c) ==
    IF StreamMissing(p)
    THEN Handled(p, c, <<>>, NoStreamError(p), NoStreamError(p) \in PgErrors)
    ELSE Handled(p, c, <<>>, "none", TRUE)

handle_COPY_DATA_front(m, p, c) ==
    IF StreamMissing(p)
    THEN Handled(p, c, <<>>, "AttributeError", FALSE)
    ELSE Handled([p EXCEPT !.stream.written = <<m.a>> \o @], c, <<>>, "none", TRUE)

handle_COPY_DATA(m, p, c) ==
    IF StreamMissing(p)
    THEN Handled(p, c, <<>>, "AttributeError", FALSE)
    ELSE Handled([p EXCEPT !.stream.written = Append(@, m.a)], c, <<>>,
                 "none", TRUE)

\* stream.read(8192) and stream.readinto(bytearray(8192)): the number of
\* bytes one read returns.
Least(a, b) == IF a < b THEN a ELSE b
BytesRead(f) == Least(Least(ChunkSize, f.cap), f.len - f.pos)

\* The loop of handle_COPY_IN_RESPONSE: one CopyData per read that returned
\* bytes, until a read returns none.
RECURSIVE CopyFrames(_)
CopyFrames(f) ==
    IF BytesRead(f) = 0 THEN <<>>
    ELSE <<MCopyData(f.pos, BytesRead(f))>>
         \o CopyFrames([f EXCEPT !.pos = @ + BytesRead(f)])

handle_COPY_IN_RESPONSE_nosync(m, p, c) ==
    IF StreamMissing(p)
    THEN Handled(p, c, <<>>, NoStreamError(p), NoStreamError(p) \in PgErrors)
    ELSE Handled([p EXCEPT !.stream.pos = p.stream.len], c,
                 CopyFrames(p.stream) \o <<MCopyDone>>, "none", TRUE)

handle_COPY_IN_RESPONSE(m, p, c) ==
    IF StreamMissing(p)
    THEN Handled(p, c, <<>>, NoStreamError(p), NoStreamError(p) \in PgErrors)
    ELSE Handled([p EXCEPT !.stream.pos = p.stream.len], c,
                 CopyFrames(p.stream) \o <<MCopyDone, MSync>>, "none", TRUE)

\* bytes.decode("ascii") raises UnicodeDecodeError on a byte above 127.
IsAscii(bytes) == \A i \in 1..Len(bytes) : bytes[i] < 128

\* The NotificationReceived delegate is called first (fired counts its
\* calls), the pid and the condition are parsed, and the pair is appended to
\* notifies under notifies_lock.
handle_NOTIFICATION_RESPONSE(m, p, c) ==
    LET c1 == [c EXCEPT !.fired = @ + 1]
    IN  IF ~IsAscii(m.p)
        THEN Handled(p, c1, <<>>, "UnicodeDecodeError", FALSE)
        ELSE Handled(p, [c1 EXCEPT !.notifies = Append(@, <<m.a, m.p>>)],
                     <<>>, "none", TRUE)

\* The password is None, a str of ASCII characters or another str
\* (str.encode("ascii") raises UnicodeEncodeError on it).  The messages of
\* the last two branches add an int to a str: TypeError.
handle_AUTHENTICATION_REQUEST(m, p, c) ==
    CASE m.a = 0 -> Handled(p, c, <<>>, "none", TRUE)
      [] m.a = 5 ->
           CASE c.password = "None" -> Handled(p, c, <<>>, "InterfaceError", TRUE)
             [] c.password = "ascii" -> Handled(p, c, <<MPassword>>, "none", TRUE)
             [] OTHER -> Handled(p, c, <<>>, "UnicodeEncodeError", FALSE)
      [] m.a \in {2, 3, 4, 6, 7, 8, 9} -> Handled(p, c, <<>>, "TypeError", FALSE)
      [] OTHER -> Handled(p, c, <<>>, "TypeError", FALSE)

\* str.lower() on the encoding names the backend reports, and the entries
\* of pg_to_py_encodings for them ("None" is the value None).
Lower(name) ==
    CASE name = "UTF8" -> "utf8"
      [] name = "LATIN1" -> "latin1"
      [] name = "SQL_ASCII" -> "sql_ascii"
      [] name = "MULE_INTERNAL" -> "mule_internal"
      [] OTHER -> name

pg_to_py_encodings ==
    [e \in {"mule_internal", "latin1", "sql_ascii"} |->
        CASE e = "mule_internal" -> "None"
          [] e = "latin1" -> "iso8859-1"
          [] OTHER -> "ascii"]

Get(d, k, default) == IF k \in DOMAIN d THEN d[k] ELSE default

\* message_types calls the handler itself: the ParameterStatusReceived
\* delegate it was added to is never called (status_fired counts its calls).
handle_PARAMETER_STATUS(m, p, c) ==
    LET key == m.p[1]
        value == m.p[2]
    IN  CASE key = "client_encoding" ->
               Handled(p, [c EXCEPT !.client_encoding =
                              Get(pg_to_py_encodings, Lower(value), Lower(value))],
                       <<>>, "none", TRUE)
          [] key = "integer_datetimes" ->
               Handled(p, [c EXCEPT !.integer_datetimes = (value = "on")],
                       <<>>, "none", TRUE)
          [] OTHER -> Handled(p, c, <<>>, "none", TRUE)

\* One iteration of the loop of handle_messages(prepared_statement): the
\* lookup in message_types and the handler's call.  A tag that is not in
\* message_types raises from inside the except KeyError clause, which no
\* other clause of the same try statement catches.
HandleMessage(m, p, c, rcs) ==
    CASE m.tag \notin KnownTags -> Handled(p, c, <<>>, "InternalError", FALSE)
      [] m.tag = "T" -> handle_ROW_DESCRIPTION(m, p, c, rcs)
      [] m.tag = "n" -> handle_NO_DATA(m, p, c)
      [] m.tag = "D" -> handle_DATA_ROW(m, p, c)
      [] m.tag = "s" -> handle_PORTAL_SUSPENDED(m, p, c)
      [] m.tag = "C" -> handle_COMMAND_COMPLETE(m, p, c)
      [] m.tag = "2" -> handle_BIND_COMPLETE(m, p, c)
      [] m.tag = "Z" -> handle_READY_FOR_QUERY(m, p, c)
      [] m.tag = "E" -> handle_ERROR_RESPONSE(m, p, c)
      [] m.tag = "G" -> handle_COPY_IN_RESPONSE(m, p, c)
      [] m.tag = "H" -> handle_COPY_OUT_RESPONSE(m, p, c)
      [] m.tag = "d" -> handle_COPY_DATA(m, p, c)
      [] m.tag = "c" -> handle_COPY_DONE(m, p, c)
      [] m.tag = "A" -> handle_NOTIFICATION_RESPONSE(m, p, c)
      [] m.tag = "R" -> handle_AUTHENTICATION_REQUEST(m, p, c)
      [] m.tag = "S" -> handle_PARAMETER_STATUS(m, p, c)
      [] OTHER -> Handled(p, c, <<>>, "none", TRUE)

\* ------------------------------------------------------------- the calls
\* The queries a cursor of thread t may execute.
Queries(t) ==
    {Sql("select", n, t) : n \in 0..MaxRows}
    \cup {Sql(k, 0, t) : k \in {"insert", "commit", "syntax_error",
                                "bind_error", "exec_error"}}
    \cup (IF emptyQueries THEN {Sql("empty", 0, t)} ELSE {})

\* The operations executemany is called with, and the sizes of its
\* parameter_sets.
ManyQueries(t) == {Sql(k, 0, t) : k \in {"insert", "bind_error"}}
ManySets == {0, MaxSets}

Rel_held(l, t) == l

Rel(l, t) == IF l = t THEN 0 ELSE l

Call(op, sql, id, meth, phase) ==
    [NoCall EXCEPT !.op = op, !.sql = sql, !.ps = id, !.meth = meth,
                   !.phase = phase]

Returned(op, result, row) ==
    [NoCall EXCEPT !.op = op, !.result = result, !.row = row]

\* The call of thread t returns result (and row, for a fetch).
Return(t, result, row) ==
    /\ pc' = [pc EXCEPT ![t] = "idle"]
    /\ ctx' = [ctx EXCEPT ![t] = [Returned(ctx[t].op, result, row) EXCEPT
                                     !.stream = ctx[t].stream]]

\* An exception leaves the call of thread t: every finally clause on the way
\* out releases the lock its try block acquired.
Raise_keeplock(t, op, err, hm, last, unread) ==
    /\ pc' = [pc EXCEPT ![t] = "idle"]
    /\ ctx' = [ctx EXCEPT ![t] =
                 [Returned(op, err, <<NoneName, 0>>) EXCEPT
                     !.hm = hm, !.last = last, !.unread = unread,
                     !.stream = ctx[t].stream]]
    /\ sockLock' = sockLock
    /\ psLock' = [i \in PsIds |-> Rel(psLock[i], t)]
    /\ unnamedLock' = Rel(unnamedLock, t)

Raise(t, op, err, hm, last, unread) ==
    /\ pc' = [pc EXCEPT ![t] = "idle"]
    /\ ctx' = [ctx EXCEPT ![t] =
                 [Returned(op, err, <<NoneName, 0>>) EXCEPT
                     !.hm = hm, !.last = last, !.unread = unread,
                     !.stream = ctx[t].stream]]
    /\ sockLock' = Rel(sockLock, t)
    /\ psLock' = [i \in PsIds |-> Rel(psLock[i], t)]
    /\ unnamedLock' = Rel(unnamedLock, t)

\* Connection.begin as called first by Cursor.execute: BEGIN is executed
\* only when not in_transaction and not autocommit.
NeedsBegin(c) == ~c.in_transaction /\ ~c.autocommit

\* Cursor.execute and Cursor.executemany, up to the call of begin().
StartExecute(t) ==
    /\ pc[t] = "idle" /\ opsLeft[t] > 0
    /\ opsLeft' = [opsLeft EXCEPT ![t] = @ - 1]
    /\ \E op \in {"execute", "executemany"} :
       \E sql \in IF op = "execute" THEN Queries(t) ELSE ManyQueries(t) :
       \E n \in IF op = "execute" THEN {1} ELSE ManySets :
         IF cur[t].closed
         THEN /\ Raise(t, op, IF op = "execute" THEN "InterfaceError"
                              ELSE "CursorClosedError", FALSE, "", 0)
              /\ cur' = [cur EXCEPT ![t].row_count =
                                       IF op = "execute" THEN -1 ELSE @]
         ELSE /\ pc' = [pc EXCEPT ![t] = IF NeedsBegin(conn) THEN "ps_lock"
                                         ELSE "unnamed_lock"]
              /\ ctx' = [ctx EXCEPT ![t] =
                           [Call(op, sql,
                                 IF NeedsBegin(conn) THEN BeginPs ELSE NoPs,
                                 "none", "none") EXCEPT !.sets = n]]
              /\ cur' = [cur EXCEPT ![t].row_count = -1]
              /\ UNCHANGED <<sockLock, psLock, unnamedLock>>
    /\ UNCHANGED <<ps, conn, statement_number, portal_number, row_cache_size,
                   srv, inbox, wire, emptyQueries, pure>>

\* Connection.commit and Connection.rollback, up to the statement's execute.
StartCommit(t) ==
    /\ pc[t] = "idle" /\ opsLeft[t] > 0
    /\ opsLeft' = [opsLeft EXCEPT ![t] = @ - 1]
    /\ \E op \in {"commit", "rollback"} :
         ctx' = [ctx EXCEPT ![t] =
                   Call(op, NoSql, IF op = "commit" THEN CommitPs ELSE RollbackPs,
                        "none", "none")]
    /\ pc' = [pc EXCEPT ![t] = "ps_lock"]
    /\ UNCHANGED <<cur, ps, conn, sockLock, unnamedLock, psLock,
                   statement_number, portal_number, row_cache_size, srv,
                   inbox, wire, emptyQueries, pure>>

\* Cursor.execute and executemany: the unnamed-statement lock is taken, and
\* PreparedStatement.__init__ runs up to its call of Connection.parse.
\* parameter_sets[0] of an empty parameter_sets raises IndexError, and the
\* finally clause releases the lock.
NewSlot(t) == IF cur[t].stmt = CurPs(t, 0) THEN CurPs(t, 1) ELSE CurPs(t, 0)

Constructed(name, sql) ==
    [NoObject EXCEPT !.statement_name = name, !.sql = sql]

\* What PreparedStatement.__init__ raises before it calls parse:
\* convert_paramstyle cannot translate the query, or make_params finds a
\* parameter whose type it cannot inspect.
CtorError(sql) ==
    CASE sql.k = "unparsable" -> "QueryParameterParseError"
      [] sql.k = "uninspectable" -> "NotSupportedError"
      [] OTHER -> "none"

\* What a parameter's send function raises in Connection.bind.
EncodeError(sql) ==
    IF sql.k = "unencodable" THEN "ArrayDimensionsNotConsistentError" ELSE "none"

AcquireUnnamed_nolock(t) ==
    /\ pc[t] = "unnamed_lock"
    /\ IF ctx[t].sets = 0
       THEN /\ Raise(t, ctx[t].op, "IndexError", FALSE, "", 0)
            /\ UNCHANGED <<statement_number, ps>>
       ELSE IF CtorError(ctx[t].sql) # "none"
       THEN /\ statement_number' = statement_number + 1
            /\ Raise(t, ctx[t].op, CtorError(ctx[t].sql), FALSE, "", 0)
            /\ UNCHANGED ps
       ELSE /\ unnamedLock' = t
            /\ statement_number' = statement_number + 1
            /\ ps' = [ps EXCEPT ![NewSlot(t)] =
                        Constructed(UnnamedStmt, ctx[t].sql)]
            /\ ctx' = [ctx EXCEPT ![t].ps = NewSlot(t), ![t].meth = "ctor",
                                  ![t].phase = "parse"]
            /\ pc' = [pc EXCEPT ![t] = "lock"]
            /\ UNCHANGED <<sockLock, psLock>>
    /\ UNCHANGED <<cur, conn, portal_number, row_cache_size,
                   srv, inbox, opsLeft, wire, emptyQueries, pure>>

AcquireUnnamed(t) ==
    /\ pc[t] = "unnamed_lock"
    /\ unnamedLock = 0
    /\ IF ctx[t].sets = 0
       THEN /\ Raise(t, ctx[t].op, "IndexError", FALSE, "", 0)
            /\ UNCHANGED <<statement_number, ps>>
       ELSE IF CtorError(ctx[t].sql) # "none"
       THEN /\ statement_number' = statement_number + 1
            /\ Raise(t, ctx[t].op, CtorError(ctx[t].sql), FALSE, "", 0)
            /\ UNCHANGED ps
       ELSE /\ unnamedLock' = t
            /\ statement_number' = statement_number + 1
            /\ ps' = [ps EXCEPT ![NewSlot(t)] =
                        Constructed(UnnamedStmt, ctx[t].sql)]
            /\ ctx' = [ctx EXCEPT ![t].ps = NewSlot(t), ![t].meth = "ctor",
                                  ![t].phase = "parse"]
            /\ pc' = [pc EXCEPT ![t] = "lock"]
            /\ UNCHANGED <<sockLock, psLock>>
    /\ UNCHANGED <<cur, conn, portal_number, row_cache_size,
                   srv, inbox, opsLeft, wire, emptyQueries, pure>>

\* PreparedStatement.execute, lines 2046-2061: the statement's lock, the
\* reset of the last execute's state, the stream and the new portal name.
PsExecute_keepdesc(t) ==
    /\ pc[t] = "ps_lock"
    /\ psLock[ctx[t].ps] = 0
    /\ psLock' = [psLock EXCEPT ![ctx[t].ps] = t]
    /\ ps' = [ps EXCEPT ![ctx[t].ps] =
                [@ EXCEPT !.cached_rows = <<>>, !.row_count = -1,
                          !.portal_suspended = FALSE,
                          !.portal_name = PortalName(portal_number),
                          !.n_exec = 0, !.n_susp = 0, !.n_cc = 0,
                          !.n_err = 0,
                          !.stream = IF ctx[t].ps \in {BeginPs, CommitPs, RollbackPs}
                                     THEN NoneStream ELSE ctx[t].stream]]
    /\ portal_number' = portal_number + 1
    /\ cur' = [cur EXCEPT ![t] = IF ctx[t].ps = cur[t].stmt
                                 THEN [@ EXCEPT !.n_ret = 0, !.done = FALSE]
                                 ELSE @]
    /\ ctx' = [ctx EXCEPT ![t].meth = "execute", ![t].phase = "bind",
                          ![t].rfq = 0]
    /\ pc' = [pc EXCEPT ![t] = "lock"]
    /\ UNCHANGED <<conn, sockLock, unnamedLock, statement_number,
                   row_cache_size, srv, inbox, opsLeft, wire, emptyQueries, pure>>

PsExecute(t) ==
    /\ pc[t] = "ps_lock"
    /\ psLock[ctx[t].ps] = 0
    /\ psLock' = [psLock EXCEPT ![ctx[t].ps] = t]
    /\ ps' = [ps EXCEPT ![ctx[t].ps] =
                [@ EXCEPT !.cached_rows = <<>>, !.row_count = -1,
                          !.portal_suspended = FALSE,
                          !.portal_name = PortalName(portal_number),
                          !.portal_row_desc = NoneDesc,
                          !.n_exec = 0, !.n_susp = 0, !.n_cc = 0,
                          !.n_err = 0,
                          !.stream = IF ctx[t].ps \in {BeginPs, CommitPs, RollbackPs}
                                     THEN NoneStream ELSE ctx[t].stream]]
    /\ portal_number' = portal_number + 1
    /\ cur' = [cur EXCEPT ![t] = IF ctx[t].ps = cur[t].stmt
                                 THEN [@ EXCEPT !.n_ret = 0, !.done = FALSE]
                                 ELSE @]
    /\ ctx' = [ctx EXCEPT ![t].meth = "execute", ![t].phase = "bind",
                          ![t].rfq = 0]
    /\ pc' = [pc EXCEPT ![t] = "lock"]
    /\ UNCHANGED <<conn, sockLock, unnamedLock, statement_number,
                   row_cache_size, srv, inbox, opsLeft, wire, emptyQueries, pure>>

\* The acquire of _sock_lock that opens parse, bind, close_statement,
\* close_portal, read_tuple's refill and Connection.close; bind then sets
\* the binding flag.
SockAcquire_nolock(t) ==
    /\ pc[t] = "lock"
    /\ sockLock' = t
    /\ conn' = IF ctx[t].phase = "bind" THEN [conn EXCEPT !.binding = TRUE]
               ELSE conn
    /\ pc' = [pc EXCEPT ![t] = "send"]
    /\ UNCHANGED <<ctx, cur, ps, unnamedLock, psLock, statement_number,
                   portal_number, row_cache_size, srv, inbox, opsLeft, wire,
                   emptyQueries, pure>>

SockAcquire(t) ==
    /\ pc[t] = "lock"
    /\ sockLock = 0
    /\ sockLock' = t
    /\ conn' = IF ctx[t].phase = "bind" THEN [conn EXCEPT !.binding = TRUE]
               ELSE conn
    /\ pc' = [pc EXCEPT ![t] = "send"]
    /\ UNCHANGED <<ctx, cur, ps, unnamedLock, psLock, statement_number,
                   portal_number, row_cache_size, srv, inbox, opsLeft, wire,
                   emptyQueries, pure>>

\* The request bursts.
parse_burst(p) ==
    <<MParse(p.statement_name, p.sql), MDescribe("S", p.statement_name),
      MSync, MFlush>>

bind_burst(p) ==
    <<MBind(p.portal_name, p.statement_name), MDescribe("P", p.portal_name),
      MFlush>>

_make_CLOSE(typ, p) == MClose(typ, p.statement_name)

_make_CLOSE_portal(p) == _make_CLOSE("P", p)

close_portal_burst(p) == <<_make_CLOSE_portal(p), MSync>>

close_statement_burst(p) == <<_make_CLOSE("S", p), MSync>>

Burst(phase, p) ==
    CASE phase = "parse" -> parse_burst(p)
      [] phase = "bind" -> bind_burst(p)
      [] phase = "exec" -> send_EXECUTE(p, row_cache_size).burst
      [] phase = "closeP" -> close_portal_burst(p)
      [] phase = "closeS" -> close_statement_burst(p)
      [] OTHER -> <<MTerminate>>

\* _send_messages under the lock: the burst of the phase is written and
\* flushed; on a closed connection it raises InterfaceError instead.  bind
\* encodes the parameters before it, and an encoder's error leaves at once.
\* Connection.close then closes the socket and releases the lock.
Send(t) ==
    /\ pc[t] = "send"
    /\ LET id == ctx[t].ps
           ph == ctx[t].phase
           net == NetWrite(Net, t, Burst(ph, IF id = NoPs THEN NoObject ELSE ps[id]))
       IN  /\ ps' = IF ph = "exec"
                    THEN [ps EXCEPT ![id] = send_EXECUTE(ps[id], row_cache_size).ps]
                    ELSE ps
           /\ IF ph = "bind" /\ EncodeError(ps[id].sql) # "none"
              THEN /\ Raise(t, ctx[t].op, EncodeError(ps[id].sql), FALSE, "", 0)
                   /\ UNCHANGED <<srv, inbox, wire, conn>>
              ELSE IF conn.closed
              THEN /\ Raise(t, ctx[t].op, "InterfaceError", FALSE, "", 0)
                   /\ UNCHANGED <<srv, inbox, wire, conn>>
              ELSE /\ srv' = net.srv /\ inbox' = net.inbox /\ wire' = net.wire
                   /\ IF ph = "terminate"
                      THEN /\ conn' = [conn EXCEPT !.closed = TRUE]
                           /\ sockLock' = 0
                           /\ Return(t, "ok", <<NoneName, 0>>)
                      ELSE /\ pc' = [pc EXCEPT ![t] = "dispatch"]
                           /\ UNCHANGED <<ctx, conn, sockLock>>
                   /\ UNCHANGED <<psLock, unnamedLock>>
    /\ UNCHANGED <<cur, statement_number, portal_number, row_cache_size,
                   opsLeft, emptyQueries, pure>>

\* An object whose constructor raised is never bound to a name.
Discard(t, f) == IF ctx[t].meth = "ctor" THEN [f EXCEPT ![ctx[t].ps] = NoObject]
                 ELSE f

\* Where the caller of handle_messages goes on after it returned.
AfterPc(phase) ==
    CASE phase = "parse" -> "after_parse"
      [] phase = "startup" -> "after_startup"
      [] phase = "bind" -> "after_bind"
      [] phase = "exec" -> "rt_check"
      [] phase = "closeP" -> "after_closeP"
      [] OTHER -> "after_closeS"

\* One iteration of the loop of handle_messages, with the release of the
\* socket lock by the caller's finally clause when the loop is left.  With
\* no statement (startup) a pg8000.errors.Error leaves at once too.
Dispatch(t) ==
    /\ pc[t] = "dispatch"
    /\ inbox # <<>>
    /\ LET m == Head(inbox)
           id == ctx[t].ps
           h == HandleMessage(m, IF id = NoPs THEN NoObject ELSE ps[id], conn,
                              row_cache_size)
           net1 == NetRead(Net, t)
           net == IF h.send = <<>> THEN net1 ELSE NetWrite(net1, t, h.send)
           latches == h.latch /\ id # NoPs
           latched == IF h.exc # "none" /\ latches THEN h.exc ELSE ctx[t].error
           leaves == h.exc # "none" /\ ~latches
           raises == leaves \/ (m.tag = "Z" /\ latched # "none")
       IN  /\ ps' = IF id = NoPs THEN ps
                    ELSE IF raises THEN Discard(t, [ps EXCEPT ![id] = h.ps])
                    ELSE [ps EXCEPT ![id] = h.ps]
           /\ conn' = h.conn
           /\ srv' = net.srv /\ inbox' = net.inbox /\ wire' = net.wire
           /\ IF raises
              THEN Raise(t, ctx[t].op, IF leaves THEN h.exc ELSE latched,
                         TRUE, m.tag, Len(net.inbox))
              ELSE IF m.tag = "Z"
              THEN /\ sockLock' = 0
                   /\ pc' = [pc EXCEPT ![t] = AfterPc(ctx[t].phase)]
                   /\ ctx' = [ctx EXCEPT ![t].last = m.tag, ![t].rfq = @ + 1]
                   /\ UNCHANGED <<psLock, unnamedLock>>
              ELSE /\ ctx' = [ctx EXCEPT ![t].last = m.tag, ![t].error = latched]
                   /\ UNCHANGED <<pc, sockLock, psLock, unnamedLock>>
    /\ UNCHANGED <<cur, statement_number, portal_number, row_cache_size,
                   opsLeft, emptyQueries, pure>>

\* The calls of the application that end in Cursor.execute or executemany.
ExecuteOps == {"execute", "executemany", "copy_from", "copy_to"}

\* PreparedStatement.__init__ returned: Connection.__init__ goes on,
\* Cursor.execute binds the new
\* statement to self._stmt (the old one is garbage) and calls its execute.
AfterParse(t) ==
    /\ pc[t] = "after_parse"
    /\ IF ctx[t].op \in ExecuteOps
       THEN /\ cur' = [cur EXCEPT ![t].stmt = ctx[t].ps, ![t].n_ret = 0,
                                  ![t].done = FALSE]
            /\ ps' = IF cur[t].stmt = NoPs THEN ps
                     ELSE [ps EXCEPT ![cur[t].stmt] = NoObject]
            /\ pc' = [pc EXCEPT ![t] = "ps_lock"]
            /\ UNCHANGED ctx
       ELSE IF ctx[t].op = "connect"
       THEN /\ pc' = [pc EXCEPT ![t] = "after_startup"]
            /\ UNCHANGED <<ctx, cur, ps>>
       ELSE /\ Return(t, "ok", <<NoneName, 0>>)
            /\ UNCHANGED <<cur, ps>>
    /\ UNCHANGED <<conn, sockLock, unnamedLock, psLock, statement_number,
                   portal_number, row_cache_size, srv, inbox, opsLeft, wire,
                   emptyQueries, pure>>

\* PreparedStatement.execute, lines 2063-2064: a statement without result
\* set has its portal closed at once.  len(None) raises TypeError.
AfterBind_noclose(t) ==
    /\ pc[t] = "after_bind"
    /\ IF ps[ctx[t].ps].portal_row_desc = NoneDesc
       THEN Raise(t, ctx[t].op, "TypeError", FALSE, "", 0)
       ELSE /\ pc' = [pc EXCEPT ![t] = "ps_unlock"]
            /\ UNCHANGED <<ctx, sockLock, psLock, unnamedLock>>
    /\ UNCHANGED <<cur, ps, conn, statement_number, portal_number,
                   row_cache_size, srv, inbox, opsLeft, wire, emptyQueries, pure>>

AfterBind(t) ==
    /\ pc[t] = "after_bind"
    /\ LET desc == ps[ctx[t].ps].portal_row_desc
       IN  IF desc = NoneDesc
           THEN Raise(t, ctx[t].op, "TypeError", FALSE, "", 0)
           ELSE /\ pc' = [pc EXCEPT ![t] = IF desc = 0 THEN "lock" ELSE "ps_unlock"]
                /\ ctx' = [ctx EXCEPT ![t].phase = IF desc = 0 THEN "closeP" ELSE @]
                /\ UNCHANGED <<sockLock, psLock, unnamedLock>>
    /\ UNCHANGED <<cur, ps, conn, statement_number, portal_number,
                   row_cache_size, srv, inbox, opsLeft, wire, emptyQueries, pure>>

\* PreparedStatement.execute returns (its finally releases the statement's
\* lock), and its caller goes on: begin sets in_transaction and Cursor.execute
\* continues; commit and rollback clear in_transaction; executemany adds
\* row_count to the cursor's and goes on with its next parameter set;
\* Cursor.execute and the last round of executemany release the
\* unnamed-statement lock, Cursor.execute copies row_count.
RowCountSum(c, n) == IF n = -1 THEN -1 ELSE IF c = -1 THEN n ELSE c + n

PsReturn(t) ==
    /\ pc[t] = "ps_unlock"
    /\ psLock' = [psLock EXCEPT ![ctx[t].ps] = 0]
    /\ IF ctx[t].ps = BeginPs
       THEN /\ conn' = [conn EXCEPT !.in_transaction = TRUE]
            /\ pc' = [pc EXCEPT ![t] = "unnamed_lock"]
            /\ ctx' = [ctx EXCEPT ![t].ps = NoPs, ![t].meth = "none",
                                  ![t].phase = "none", ![t].rfq = 0, ![t].last = ""]
            /\ UNCHANGED <<unnamedLock, cur>>
       ELSE IF ctx[t].ps \in {CommitPs, RollbackPs}
       THEN /\ conn' = [conn EXCEPT !.in_transaction = FALSE]
            /\ Return(t, "ok", <<NoneName, 0>>)
            /\ UNCHANGED <<unnamedLock, cur>>
       ELSE IF ctx[t].op = "executemany"
       THEN /\ cur' = [cur EXCEPT ![t].row_count =
                                     RowCountSum(@, ps[ctx[t].ps].row_count)]
            /\ IF ctx[t].sets > 1
               THEN /\ pc' = [pc EXCEPT ![t] = "ps_lock"]
                    /\ ctx' = [ctx EXCEPT ![t].sets = @ - 1]
                    /\ UNCHANGED unnamedLock
               ELSE /\ unnamedLock' = Rel(unnamedLock, t)
                    /\ Return(t, "ok", <<NoneName, 0>>)
            /\ UNCHANGED conn
       ELSE /\ unnamedLock' = Rel(unnamedLock, t)
            /\ cur' = [cur EXCEPT ![t].row_count = ps[ctx[t].ps].row_count]
            /\ Return(t, "ok", <<NoneName, 0>>)
            /\ UNCHANGED conn
    /\ UNCHANGED <<ps, sockLock, statement_number, portal_number,
                   row_cache_size, srv, inbox, opsLeft, wire, emptyQueries, pure>>

\* Cursor.fetchone: read_tuple of the cursor's statement.
StartFetch(t) ==
    /\ pc[t] = "idle"
    /\ IF cur[t].stmt = NoPs
       THEN Raise(t, "fetch", "ProgrammingError", FALSE, "", 0)
       ELSE /\ pc' = [pc EXCEPT ![t] = "rt_lock"]
            /\ ctx' = [ctx EXCEPT ![t] =
                         Call("fetch", NoSql, cur[t].stmt, "read_tuple", "none")]
            /\ UNCHANGED <<sockLock, psLock, unnamedLock>>
    /\ UNCHANGED <<cur, ps, conn, statement_number, portal_number,
                   row_cache_size, srv, inbox, opsLeft, wire, emptyQueries, pure>>

\* read_tuple, lines 2085-2090: with the cache empty the portal is closed
\* and None returned (no result set: ProgrammingError); otherwise the oldest
\* cached row is returned.
Drain(t) ==
    LET id == ctx[t].ps
        p == ps[id]
    IN  IF p.cached_rows = <<>>
        THEN IF p.portal_row_desc \in {NoneDesc, 0}
             THEN /\ Raise(t, ctx[t].op,
                           IF p.portal_row_desc = 0 THEN "ProgrammingError"
                           ELSE "TypeError", FALSE, "", 0)
                  /\ UNCHANGED <<ps, cur>>
             ELSE /\ psLock' = [psLock EXCEPT ![id] = t]
                  /\ pc' = [pc EXCEPT ![t] = "lock"]
                  /\ ctx' = [ctx EXCEPT ![t].phase = "closeP"]
                  /\ UNCHANGED <<ps, cur, sockLock, unnamedLock>>
        ELSE /\ ps' = [ps EXCEPT ![id].cached_rows = Tail(p.cached_rows)]
             /\ cur' = [cur EXCEPT ![t].n_ret = @ + 1]
             /\ psLock' = [psLock EXCEPT ![id] = 0]
             /\ Return(t, "row", Head(p.cached_rows))
             /\ UNCHANGED <<sockLock, unnamedLock>>

\* read_tuple, lines 2075-2084: under the statement's lock, an empty cache
\* of a suspended portal is refilled by one more Execute.
ReadTuple_always(t) ==
    /\ pc[t] = "rt_lock"
    /\ psLock[ctx[t].ps] = 0
    /\ IF ps[ctx[t].ps].cached_rows = <<>>
       THEN /\ psLock' = [psLock EXCEPT ![ctx[t].ps] = t]
            /\ pc' = [pc EXCEPT ![t] = "lock"]
            /\ ctx' = [ctx EXCEPT ![t].phase = "exec"]
            /\ UNCHANGED <<ps, cur, sockLock, unnamedLock>>
       ELSE Drain(t)
    /\ UNCHANGED <<conn, statement_number, portal_number, row_cache_size,
                   srv, inbox, opsLeft, wire, emptyQueries, pure>>

ReadTuple(t) ==
    /\ pc[t] = "rt_lock"
    /\ psLock[ctx[t].ps] = 0
    /\ IF ps[ctx[t].ps].cached_rows = <<>> /\ ps[ctx[t].ps].portal_suspended
       THEN /\ psLock' = [psLock EXCEPT ![ctx[t].ps] = t]
            /\ pc' = [pc EXCEPT ![t] = "lock"]
            /\ ctx' = [ctx EXCEPT ![t].phase = "exec"]
            /\ UNCHANGED <<ps, cur, sockLock, unnamedLock>>
       ELSE Drain(t)
    /\ UNCHANGED <<conn, statement_number, portal_number, row_cache_size,
                   srv, inbox, opsLeft, wire, emptyQueries, pure>>

RtCheck(t) ==
    /\ pc[t] = "rt_check"
    /\ Drain(t)
    /\ UNCHANGED <<conn, statement_number, portal_number, row_cache_size,
                   srv, inbox, opsLeft, wire, emptyQueries, pure>>

\* close_portal returned to its caller: PreparedStatement.execute,
\* read_tuple (which returns None) or PreparedStatement.close (which clears
\* portal_name; Cursor.close then clears _stmt and _conn).
AfterCloseP(t) ==
    /\ pc[t] = "after_closeP"
    /\ CASE ctx[t].meth = "execute" ->
              /\ pc' = [pc EXCEPT ![t] = "ps_unlock"]
              /\ UNCHANGED <<ctx, ps, cur, psLock>>
         [] ctx[t].meth = "read_tuple" ->
              /\ psLock' = [psLock EXCEPT ![ctx[t].ps] = 0]
              /\ cur' = [cur EXCEPT ![t].done = TRUE]
              /\ Return(t, "None", <<NoneName, 0>>)
              /\ UNCHANGED ps
         [] OTHER ->
              /\ IF ctx[t].op = "curclose"
                 THEN /\ ps' = [ps EXCEPT ![ctx[t].ps] = NoObject]
                      /\ cur' = [cur EXCEPT ![t].stmt = NoPs, ![t].closed = TRUE]
                 ELSE /\ ps' = [ps EXCEPT ![ctx[t].ps].portal_name = NoneName]
                      /\ UNCHANGED cur
              /\ Return(t, "ok", <<NoneName, 0>>)
              /\ UNCHANGED psLock
    /\ UNCHANGED <<conn, sockLock, unnamedLock, statement_number,
                   portal_number, row_cache_size, srv, inbox, opsLeft, wire,
                   emptyQueries, pure>>

\* close_statement returned to PreparedStatement.close, line 2031.
AfterCloseS(t) ==
    /\ pc[t] = "after_closeS"
    /\ IF ps[ctx[t].ps].portal_name # NoneName
       THEN /\ pc' = [pc EXCEPT ![t] = "lock"]
            /\ ctx' = [ctx EXCEPT ![t].phase = "closeP"]
       ELSE Return(t, "ok", <<NoneName, 0>>)
    /\ UNCHANGED <<cur, ps, conn, sockLock, unnamedLock, psLock,
                   statement_number, portal_number, row_cache_size, srv,
                   inbox, opsLeft, wire, emptyQueries, pure>>

\* PreparedStatement.close, line 2029: the unnamed statement is not closed.
ClosesStatement_always(p) == TRUE

ClosesStatement(p) == p.statement_name # UnnamedStmt

\* Cursor.close: PreparedStatement.close of the cursor's statement, which
\* is unnamed, so only its portal is closed.
StartCursorClose(t) ==
    /\ pc[t] = "idle" /\ opsLeft[t] > 0
    /\ opsLeft' = [opsLeft EXCEPT ![t] = @ - 1]
    /\ IF cur[t].closed
       THEN /\ Raise(t, "curclose", "CursorClosedError", FALSE, "", 0)
            /\ UNCHANGED cur
       ELSE IF cur[t].stmt = NoPs
       THEN /\ cur' = [cur EXCEPT ![t].closed = TRUE]
            /\ pc' = pc
            /\ ctx' = [ctx EXCEPT ![t] = Returned("curclose", "ok", <<NoneName, 0>>)]
            /\ UNCHANGED <<sockLock, psLock, unnamedLock>>
       ELSE /\ pc' = [pc EXCEPT ![t] =
                        IF ClosesStatement(ps[cur[t].stmt])
                           \/ ps[cur[t].stmt].portal_name # NoneName
                        THEN "lock" ELSE "after_closeP"]
            /\ ctx' = [ctx EXCEPT ![t] =
                         Call("curclose", NoSql, cur[t].stmt, "close",
                              IF ClosesStatement(ps[cur[t].stmt])
                              THEN "closeS" ELSE "closeP")]
            /\ UNCHANGED <<cur, sockLock, psLock, unnamedLock>>
    /\ UNCHANGED <<ps, conn, statement_number, portal_number, row_cache_size,
                   srv, inbox, wire, emptyQueries, pure>>

\* Connection.close.
StartConnClose(t) ==
    /\ pc[t] = "idle" /\ opsLeft[t] > 0
    /\ opsLeft' = [opsLeft EXCEPT ![t] = @ - 1]
    /\ pc' = [pc EXCEPT ![t] = "lock"]
    /\ ctx' = [ctx EXCEPT ![t] = Call("connclose", NoSql, NoPs, "none", "terminate")]
    /\ UNCHANGED <<cur, ps, conn, sockLock, unnamedLock, psLock,
                   statement_number, portal_number, row_cache_size, srv,
                   inbox, wire, emptyQueries, pure>>

\* PreparedStatement(connection, query): a statement prepared under a
\* generated name, up to its call of Connection.parse.
StartPrepare(t) ==
    /\ pc[t] = "idle" /\ opsLeft[t] > 0
    /\ ps[UserPs] = NoObject
    /\ opsLeft' = [opsLeft EXCEPT ![t] = @ - 1]
    /\ ps' = [ps EXCEPT ![UserPs] =
                Constructed(StmtName(statement_number), Sql("insert", 0, t))]
    /\ ctx' = [ctx EXCEPT ![t] =
                 Call("prepare", Sql("insert", 0, t), UserPs, "ctor", "parse")]
    /\ statement_number' = statement_number + 1
    /\ pc' = [pc EXCEPT ![t] = "lock"]
    /\ UNCHANGED <<cur, conn, sockLock, unnamedLock, psLock, portal_number,
                   row_cache_size, srv, inbox, wire, emptyQueries, pure>>

\* PreparedStatement.close of a statement the application prepared.
StartPsClose(t) ==
    /\ pc[t] = "idle" /\ opsLeft[t] > 0
    /\ ps[UserPs] # NoObject
    /\ \A u \in Threads : ctx[u].ps # UserPs
    /\ opsLeft' = [opsLeft EXCEPT ![t] = @ - 1]
    /\ pc' = [pc EXCEPT ![t] =
                IF ClosesStatement(ps[UserPs]) THEN "lock"
                ELSE "after_closeS"]
    /\ ctx' = [ctx EXCEPT ![t] =
                 Call("ps_close", NoSql, UserPs, "close", "closeS")]
    /\ UNCHANGED <<cur, ps, conn, sockLock, unnamedLock, psLock,
                   statement_number, portal_number, row_cache_size, srv,
                   inbox, wire, emptyQueries, pure>>

\* Cursor.copy_from and Cursor.copy_to called with the file object stream:
\* without query and table they raise; otherwise copy_execute runs the COPY
\* statement through Cursor.execute(query, stream=fileobj).
CopyCall(t, op, sql, stream) ==
    /\ pc[t] = "idle" /\ opsLeft[t] > 0
    /\ opsLeft' = [opsLeft EXCEPT ![t] = @ - 1]
    /\ IF sql = NoSql
       THEN /\ Raise(t, op, "CopyQueryOrTableRequiredError", FALSE, "", 0)
            /\ UNCHANGED cur
       ELSE IF cur[t].closed
       THEN /\ Raise(t, op, "CursorClosedError", FALSE, "", 0)
            /\ UNCHANGED cur
       ELSE /\ pc' = [pc EXCEPT ![t] = IF NeedsBegin(conn) THEN "ps_lock"
                                       ELSE "unnamed_lock"]
            /\ ctx' = [ctx EXCEPT ![t] =
                         [Call(op, sql,
                               IF NeedsBegin(conn) THEN BeginPs ELSE NoPs,
                               "none", "none") EXCEPT !.sets = 1,
                                                      !.stream = stream]]
            /\ cur' = [cur EXCEPT ![t].row_count = -1]
            /\ UNCHANGED <<sockLock, psLock, unnamedLock>>
    /\ UNCHANGED <<ps, conn, statement_number, portal_number, row_cache_size,
                   srv, inbox, wire, emptyQueries, pure>>

\* The streams copy_from is given: of no byte, one byte, one buffer, one
\* buffer and a byte, MaxChunks buffers and a byte; read whole buffers at
\* a time or less.
CopyLens == {0, 1, ChunkSize, ChunkSize + 1, MaxChunks * ChunkSize + 1}
ReadCaps == {ChunkSize + 1, ChunkSize \div 2 + 1}
Sources == {Stream("file", n, c) : n \in CopyLens, c \in ReadCaps}
Sink == Stream("file", 0, 0)

CopyQueries(t) ==
    {NoSql, Sql("copy_from", 0, t)} \cup {Sql("copy_to", n, t) : n \in 0..MaxRows}

CopyOp(sql) == IF sql.k = "copy_to" THEN "copy_to" ELSE "copy_from"

StartCopy(t) ==
    \E sql \in CopyQueries(t) :
    \E stream \in IF sql.k = "copy_to" THEN {Sink} ELSE Sources :
        CopyCall(t, CopyOp(sql), sql, stream)

\* The same calls with None for the file object.
StartCopyNoStream(t) ==
    \E sql \in CopyQueries(t) \ {NoSql} :
        CopyCall(t, CopyOp(sql), sql, NoneStream)

Next ==
    \E t \in Threads :
        \/ StartExecute(t)
        \/ StartCommit(t)
        \/ StartFetch(t)
        \/ StartCursorClose(t)
        \/ StartConnClose(t)
        \/ StartPrepare(t)
        \/ StartPsClose(t)
        \/ AcquireUnnamed(t)
        \/ PsExecute(t)
        \/ SockAcquire(t)
        \/ Send(t)
        \/ Dispatch(t)
        \/ AfterParse(t)
        \/ AfterBind(t)
        \/ PsReturn(t)
        \/ ReadTuple(t)
        \/ RtCheck(t)
        \/ AfterCloseP(t)
        \/ AfterCloseS(t)

Spec == Init /\ [][Next]_vars

SpecSeq == InitSeq /\ [][Next]_vars

SpecEmptyQuery == InitEmptyQuery /\ [][Next]_vars

\* Connection.__init__, lines 1033-1053: the startup message is written and
\* flushed, then handle_messages(None) runs under the socket lock.
Startup(t) ==
    /\ pc[t] = "connect"
    /\ LET net == NetWrite(Net, t, <<MStartup>>)
       IN  srv' = net.srv /\ inbox' = net.inbox /\ wire' = net.wire
    /\ sockLock' = t
    /\ pc' = [pc EXCEPT ![t] = "dispatch"]
    /\ UNCHANGED <<ctx, cur, ps, conn, unnamedLock, psLock, statement_number,
                   portal_number, row_cache_size, opsLeft, emptyQueries, pure>>

\* Connection.__init__, lines 1055-1060: _begin, _commit and _rollback are
\* prepared one after the other, then in_transaction and notifies are set.
ToPrepare ==
    CASE ps[BeginPs] = NoObject -> <<BeginPs, BeginSql>>
      [] ps[CommitPs] = NoObject -> <<CommitPs, CommitSql>>
      [] ps[RollbackPs] = NoObject -> <<RollbackPs, RollbackSql>>
      [] OTHER -> <<NoPs, NoSql>>

AfterStartup(t) ==
    /\ pc[t] = "after_startup"
    /\ IF ToPrepare[1] = NoPs
       THEN /\ conn' = [conn EXCEPT !.in_transaction = FALSE, !.notifies = <<>>]
            /\ Return(t, "ok", <<NoneName, 0>>)
            /\ UNCHANGED <<ps, statement_number>>
       ELSE /\ ps' = [ps EXCEPT ![ToPrepare[1]] =
                        Constructed(StmtName(statement_number), ToPrepare[2])]
            /\ statement_number' = statement_number + 1
            /\ ctx' = [ctx EXCEPT ![t].ps = ToPrepare[1], ![t].meth = "ctor",
                                  ![t].phase = "parse"]
            /\ pc' = [pc EXCEPT ![t] = "lock"]
            /\ UNCHANGED conn
    /\ UNCHANGED <<cur, sockLock, unnamedLock, psLock, portal_number,
                   row_cache_size, srv, inbox, opsLeft, wire, emptyQueries, pure>>

\* What the backend may do at startup: refuse the session, welcome it
\* with or without an MD5 password (reporting some parameters), refuse
\* the password, or ask for another authentication.
Plan(code, ok, status, error) ==
    [code |-> code, ok |-> ok, status |-> status, error |-> error]
StartupErrors == {"28000", "3D000"}
Statuses == {BStatus("client_encoding", "UTF8"),
             BStatus("client_encoding", "LATIN1"),
             BStatus("client_encoding", "MULE_INTERNAL"),
             BStatus("integer_datetimes", "on"),
             BStatus("integer_datetimes", "off"),
             BStatus("server_version", "9.1")}
StatusSeqs == UNION {[1..n -> Statuses] : n \in 0..MaxStatus}
Plans ==
    {Plan(-1, FALSE, <<>>, e) : e \in StartupErrors}
    \cup {Plan(c, TRUE, st, "") : c \in {0, 5}, st \in StatusSeqs}
    \cup {Plan(5, FALSE, <<>>, e) : e \in StartupErrors}
    \cup {Plan(c, TRUE, <<>>, "") : c \in (1..MaxAuthCode) \ {5}}

\* connect(): the module has just been imported, the socket is connected
\* and Connection.__init__ is about to write the startup message.
InitStartup ==
    /\ pc = [t \in Threads |-> IF t = 1 THEN "connect" ELSE "idle"]
    /\ ctx = [t \in Threads |->
                IF t = 1 THEN Call("connect", NoSql, NoPs, "none", "startup")
                ELSE NoCall]
    /\ cur = [t \in Threads |-> NewCursor]
    /\ ps = [i \in PsIds |-> NoObject]
    /\ \E py2 \in BOOLEAN, password \in {"None", "ascii", "other"} :
         conn = [binding |-> FALSE, in_transaction |-> FALSE,
                 autocommit |-> FALSE, ready_status |-> "I", closed |-> FALSE,
                 copy_done |-> FALSE, notifies |-> <<>>, fired |-> 0,
                 PY2 |-> py2, password |-> password,
                 client_encoding |-> "ascii", integer_datetimes |-> FALSE,
                 status_fired |-> 0, faults |-> 0]
    /\ sockLock = 0
    /\ unnamedLock = 0
    /\ psLock = [i \in PsIds |-> 0]
    /\ statement_number = 0
    /\ portal_number = 0
    /\ row_cache_size = 1
    /\ \E plan \in Plans :
         srv = [tx |-> "I", skip |-> FALSE, closed |-> FALSE, out |-> <<>>,
                stmts |-> NoStmts, portals |-> NoPortals, copy |-> FALSE,
                copied |-> 0, notified |-> <<>>, plan |-> plan]
    /\ inbox = <<>>
    /\ wire = [owner |-> 0, io |-> 0, burst |-> <<>>]
    /\ opsLeft = [t \in Threads |-> 0]
    /\ emptyQueries = FALSE
    /\ pure = NoPure

NextStartup ==
    \E t \in Threads :
        \/ Startup(t)
        \/ Dispatch(t)
        \/ AfterStartup(t)
        \/ SockAcquire(t)
        \/ Send(t)
        \/ AfterParse(t)

SpecStartup == InitStartup /\ [][NextStartup]_vars

\* Another session notifies a channel this session listens on: the backend
\* sends a NotificationResponse (notified records those sent).  The names
\* are "a", "b" and one with a byte above 127 (e-acute in LATIN1).
Conditions == {<<97>>, <<98>>, <<233>>}
NotifierPids == {4711}

Notify ==
    /\ ~srv.closed
    /\ Len(srv.notified) < MaxNotifies
    /\ \E pid \in NotifierPids, condition \in Conditions :
         /\ inbox' = Append(inbox, BNotification(pid, condition))
         /\ srv' = [srv EXCEPT !.notified = Append(@, <<pid, condition>>)]
    /\ UNCHANGED <<pc, ctx, cur, ps, conn, sockLock, unnamedLock, psLock,
                   statement_number, portal_number, row_cache_size, opsLeft,
                   wire, emptyQueries, pure>>

\* One thread uses the connection while notifications arrive.
InitNotify ==
    /\ InitCommon
    /\ row_cache_size = 1
    /\ opsLeft = [t \in Threads |-> IF t = 1 THEN MaxNotifyOps ELSE 0]
    /\ emptyQueries = FALSE
    /\ pure = NoPure

NextNotify == Next \/ Notify

SpecNotify == InitNotify /\ [][NextNotify]_vars

\* One thread copies in and out, always with a stream.
CopySteps(t) ==
    \/ AcquireUnnamed(t)
    \/ PsExecute(t)
    \/ SockAcquire(t)
    \/ Send(t)
    \/ Dispatch(t)
    \/ AfterParse(t)
    \/ AfterBind(t)
    \/ PsReturn(t)
    \/ AfterCloseP(t)

NextCopy == \E t \in Threads : StartCopy(t) \/ CopySteps(t)

SpecCopy == InitSeq /\ [][NextCopy]_vars

\* One thread copies in and out, with and without a stream.
NextCopyNoStream ==
    \E t \in Threads : StartCopy(t) \/ StartCopyNoStream(t) \/ CopySteps(t)

SpecCopyNoStream == InitSeq /\ [][NextCopyNoStream]_vars

\* Cursor.execute and executemany with a query or parameters the client
\* rejects, up to the call of begin().
RejectedQueries(t) ==
    {Sql(k, 0, t) : k \in {"unparsable", "uninspectable", "unencodable"}}

StartRejected(t) ==
    /\ pc[t] = "idle" /\ opsLeft[t] > 0
    /\ opsLeft' = [opsLeft EXCEPT ![t] = @ - 1]
    /\ \E op \in {"execute", "executemany"} : \E sql \in RejectedQueries(t) :
         IF cur[t].closed
         THEN /\ Raise(t, op, IF op = "execute" THEN "InterfaceError"
                              ELSE "CursorClosedError", FALSE, "", 0)
              /\ cur' = [cur EXCEPT ![t].row_count =
                                       IF op = "execute" THEN -1 ELSE @]
         ELSE /\ pc' = [pc EXCEPT ![t] = IF NeedsBegin(conn) THEN "ps_lock"
                                         ELSE "unnamed_lock"]
              /\ ctx' = [ctx EXCEPT ![t] =
                           [Call(op, sql,
                                 IF NeedsBegin(conn) THEN BeginPs ELSE NoPs,
                                 "none", "none") EXCEPT !.sets = 1]]
              /\ cur' = [cur EXCEPT ![t].row_count = -1]
              /\ UNCHANGED <<sockLock, psLock, unnamedLock>>
    /\ UNCHANGED <<ps, conn, statement_number, portal_number, row_cache_size,
                   srv, inbox, wire, emptyQueries, pure>>

NextReject == Next \/ \E t \in Threads : StartRejected(t)

MaxRejectOps == 2

InitReject ==
    /\ InitCommon
    /\ opsLeft = [t \in Threads |-> IF t = 1 THEN MaxRejectOps ELSE 0]
    /\ emptyQueries = FALSE
    /\ pure = NoPure

SpecReject == InitReject /\ [][NextReject]_vars

\* The socket layer fails: _write or _flush in _send_messages raises
\* socket.error or socket.timeout, which neither except clause of
\* _send_messages catches, and the finally clauses of the callers release
\* their locks.  Nothing of the burst has reached the backend.
MaxFaults == 1

SocketErrors == {"socket.error", "socket.timeout"}

WriteFails(t) ==
    /\ pc[t] = "send"
    /\ ~conn.closed
    /\ conn.faults < MaxFaults
    /\ conn' = [conn EXCEPT !.faults = @ + 1]
    /\ ps' = Discard(t, ps)
    /\ \E e \in SocketErrors : Raise(t, ctx[t].op, e, FALSE, "", 0)
    /\ UNCHANGED <<cur, statement_number, portal_number, row_cache_size,
                   srv, inbox, opsLeft, wire, emptyQueries, pure>>

\* self._sock.read in handle_messages raises socket.error or socket.timeout:
\* it is raised outside the try block of the loop.
ReadFails(t) ==
    /\ pc[t] = "dispatch"
    /\ conn.faults < MaxFaults
    /\ conn' = [conn EXCEPT !.faults = @ + 1]
    /\ ps' = Discard(t, ps)
    /\ \E e \in SocketErrors : Raise(t, ctx[t].op, e, TRUE, "", Len(inbox))
    /\ UNCHANGED <<cur, statement_number, portal_number, row_cache_size,
                   srv, inbox, opsLeft, wire, emptyQueries, pure>>

NextFault == Next \/ \E t \in Threads : WriteFails(t) \/ ReadFails(t)

\* One thread makes its calls on a connection whose socket may fail.
MaxFaultOps == 2

InitFault ==
    /\ InitCommon
    /\ opsLeft = [t \in Threads |-> IF t = 1 THEN MaxFaultOps ELSE 0]
    /\ emptyQueries = FALSE
    /\ pure = NoPure

SpecFault == InitFault /\ [][NextFault]_vars

\* ---------------------------------------------------- convert_paramstyle
\* A query is a sequence of one-character strings.  NoChar stands for None
\* (prev_c before the first character, next_c after the last one).
NoChar == ""

\* str.isalnum() on the characters the queries are made of.
Alnum == {"a", "b", "d", "s", "x", "E", "1", "2", "3"}

\* str(n), for the parameter numbers that occur.
Str(n) == <<<<"1", "2", "3", "4", "5", "6", "7", "8", "9">>[n]>>

PositionalStyles == {"numeric", "qmark", "format"}

Styles == {"qmark", "numeric", "named", "format", "pyformat"}

\* The scanner's local variables before the loop.
NewScan(style) ==
    [state |-> "OUTSIDE", style |-> style, in_quote_escape |-> FALSE,
     in_param_escape |-> FALSE, placeholders |-> <<>>, output_query |-> <<>>,
     param_idx |-> 1, prev_c |-> NoChar, error |-> "none"]

\* output_query.append(...)
Emit(s, chars) == [s EXCEPT !.output_query = @ \o chars]

\* output_query.append(next(param_idx))
EmitNextParam(s) ==
    [s EXCEPT !.output_query = @ \o <<"$">> \o Str(s.param_idx),
              !.param_idx = @ + 1]

\* placeholders[-1] += c
NameAppend(s, c) ==
    [s EXCEPT !.placeholders[Len(s.placeholders)] = @ \o <<c>>]

\* The end of a placeholder name: a name seen before gets its old number
\* and is dropped from the list, a new name gets the list's length.
EndOfName(s) ==
    LET n == Len(s.placeholders)
        seen == {i \in 1..(n - 1) : s.placeholders[i] = s.placeholders[n]}
    IN  IF seen # {}
        THEN LET pidx == CHOOSE i \in seen : \A j \in seen : i <= j
             IN  [s EXCEPT !.state = "OUTSIDE",
                           !.output_query = @ \o <<"$">> \o Str(pidx),
                           !.placeholders = SubSeq(@, 1, n - 1)]
        ELSE [s EXCEPT !.state = "OUTSIDE",
                       !.output_query = @ \o <<"$">> \o Str(n)]

\* A % inside a quoted region (the same code in the three quoted states).
\* With next_c None the error message's concatenation raises TypeError.
QuotedPercent(s, c, next_c) ==
    IF s.in_param_escape
    THEN Emit([s EXCEPT !.in_param_escape = FALSE], <<c>>)
    ELSE IF next_c = "%" THEN [s EXCEPT !.in_param_escape = TRUE]
    ELSE IF next_c = NoChar THEN [s EXCEPT !.error = "TypeError"]
    ELSE [s EXCEPT !.error = "QueryParameterParseError"]

\* A % outside quotes in the format style, or in the pyformat style when no
\* "(" follows: the style becomes "format" for the rest of the scan.
OutsidePercent(s, c, next_c) ==
    LET f == [s EXCEPT !.style = "format"]
    IN  IF f.in_param_escape
        THEN Emit([f EXCEPT !.in_param_escape = FALSE], <<c>>)
        ELSE IF next_c = "%" THEN [f EXCEPT !.in_param_escape = TRUE]
        ELSE IF next_c = "s" THEN EmitNextParam([f EXCEPT !.state = "INSIDE_PN"])
        ELSE [f EXCEPT !.error = "QueryParameterParseError"]

ScanOutside(s, c, next_c) ==
    IF c = "'"
    THEN Emit([s EXCEPT !.state = IF s.prev_c = "E" THEN "INSIDE_ES"
                                  ELSE "INSIDE_SQ"], <<c>>)
    ELSE IF c = "\"" THEN Emit([s EXCEPT !.state = "INSIDE_QI"], <<c>>)
    ELSE IF s.style = "qmark" /\ c = "?" THEN EmitNextParam(s)
    ELSE IF s.style = "numeric" /\ c = ":" THEN Emit(s, <<"$">>)
    ELSE IF s.style = "named" /\ c = ":"
         THEN [s EXCEPT !.state = "INSIDE_PN", !.placeholders = Append(@, <<>>)]
    ELSE IF s.style = "pyformat" /\ c = "%" /\ next_c = "("
         THEN [s EXCEPT !.state = "INSIDE_PN", !.placeholders = Append(@, <<>>)]
    ELSE IF s.style \in {"format", "pyformat"} /\ c = "%"
         THEN OutsidePercent(s, c, next_c)
    ELSE Emit(s, <<c>>)

ScanSQ(s, c, next_c) ==
    IF c = "'"
    THEN LET o == Emit(s, <<c>>)
         IN  IF s.in_quote_escape THEN [o EXCEPT !.in_quote_escape = FALSE]
             ELSE IF next_c = "'" THEN [o EXCEPT !.in_quote_escape = TRUE]
             ELSE [o EXCEPT !.state = "OUTSIDE"]
    ELSE IF s.style \in {"pyformat", "format"} /\ c = "%"
         THEN QuotedPercent(s, c, next_c)
    ELSE Emit(s, <<c>>)

ScanQI(s, c, next_c) ==
    IF c = "\"" THEN Emit([s EXCEPT !.state = "OUTSIDE"], <<c>>)
    ELSE IF s.style \in {"pyformat", "format"} /\ c = "%"
         THEN QuotedPercent(s, c, next_c)
    ELSE Emit(s, <<c>>)

ScanES_noclose(s, c, next_c) ==
    IF c = "'" /\ s.prev_c # "\\" THEN Emit([s EXCEPT !.state = "INSIDE_SQ"], <<c>>)
    ELSE IF s.style \in {"pyformat", "format"} /\ c = "%"
         THEN QuotedPercent(s, c, next_c)
    ELSE Emit(s, <<c>>)

ScanES(s, c, next_c) ==
    IF c = "'" /\ s.prev_c # "\\" THEN Emit([s EXCEPT !.state = "OUTSIDE"], <<c>>)
    ELSE IF s.style \in {"pyformat", "format"} /\ c = "%"
         THEN QuotedPercent(s, c, next_c)
    ELSE Emit(s, <<c>>)

ScanPN(s, c, next_c) ==
    IF s.style = "named"
    THEN LET a == NameAppend(s, c)
         IN  IF next_c = NoChar \/ (next_c \notin Alnum /\ next_c # "_")
             THEN EndOfName(a)
             ELSE a
    ELSE IF s.style = "pyformat"
    THEN IF s.prev_c = ")" /\ c = "s" THEN EndOfName(s)
         ELSE IF c \in {"(", ")"} THEN s
         ELSE NameAppend(s, c)
    ELSE IF s.style = "format" THEN [s EXCEPT !.state = "OUTSIDE"]
    ELSE s

\* One iteration of the loop over the query's characters.
ScanChar(s, c, next_c) ==
    LET r == CASE s.state = "OUTSIDE" -> ScanOutside(s, c, next_c)
               [] s.state = "INSIDE_SQ" -> ScanSQ(s, c, next_c)
               [] s.state = "INSIDE_QI" -> ScanQI(s, c, next_c)
               [] s.state = "INSIDE_ES" -> ScanES(s, c, next_c)
               [] OTHER -> ScanPN(s, c, next_c)
    IN  [r EXCEPT !.prev_c = c]

\* The loop over the characters i..last of the query; a raise ends it.
RECURSIVE ScanFrom(_, _, _, _)
ScanFrom(s, query, i, last) ==
    IF i > last \/ s.error # "none" THEN s
    ELSE ScanFrom(ScanChar(s, query[i],
                           IF i + 1 <= Len(query) THEN query[i + 1] ELSE NoChar),
                  query, i + 1, last)

\* convert_paramstyle(style, query): the converted query and what make_args
\* closes over (the style at the end of the scan and the placeholder names).
convert_paramstyle(style, query) ==
    LET s == ScanFrom(NewScan(style), query, 1, Len(query))
    IN  [error |-> s.error, query |-> s.output_query, style |-> s.style,
         placeholders |-> s.placeholders]

\* Argument values: None, a tuple, or a dict keyed by placeholder name.
NoArgs == [kind |-> "None", v |-> <<>>]
TupleArgs(v) == [kind |-> "tuple", v |-> v]
DictArgs(d) == [kind |-> "dict", v |-> d]

\* make_args(args) of a conversion cv.
make_args(cv, args) ==
    IF cv.style \in PositionalStyles
    THEN [error |-> "none", value |-> IF args = NoArgs THEN TupleArgs(<<>>) ELSE args]
    ELSE IF args.kind # "dict" THEN [error |-> "TypeError", value |-> NoArgs]
    ELSE IF \E i \in 1..Len(cv.placeholders) : cv.placeholders[i] \notin DOMAIN args.v
         THEN [error |-> "KeyError", value |-> NoArgs]
    ELSE [error |-> "none",
          value |-> TupleArgs([i \in 1..Len(cv.placeholders) |->
                                  args.v[cv.placeholders[i]]])]

\* The queries under test are built from at most MaxSegs segments: plain
\* text, a placeholder of the style, a literal %%, another %X, and quoted
\* regions ('...', "...", E'...') around a marker, a %% or an escaped quote.
MaxSegs == 3

Name(k) == IF k = 1 THEN <<"a">> ELSE <<"b">>

Marker(style, k) ==
    CASE style = "qmark" -> <<"?">>
      [] style = "numeric" -> <<":">> \o Str(k)
      [] style = "named" -> <<":">> \o Name(k)
      [] style = "format" -> <<"%", "s">>
      [] OTHER -> <<"%", "(">> \o Name(k) \o <<")", "s">>

Keys(style) == IF style \in {"qmark", "format"} THEN {1} ELSE {1, 2}

\* A marker of another style, which is plain text in this one.
Foreign(style) ==
    IF style \in {"qmark", "pyformat"} THEN <<":", "a">> ELSE <<"?">>

Quote(q) == IF q = "qi" THEN <<"\"">> ELSE <<"'">>

Escaped(q) ==
    CASE q = "sq" -> <<"'", "'">>
      [] q = "es" -> <<"\\", "'">>
      [] OTHER -> <<"x">>

Seg(kind, chars, key, inner) ==
    [kind |-> kind, chars |-> chars, key |-> key, inner |-> inner]

Segments(style) ==
    {Seg("text", c, 0, "none") : c \in {<<",">>, Foreign(style)}}
    \cup {Seg("placeholder", Marker(style, k), k, "none") : k \in Keys(style)}
    \cup {Seg("percent", <<"%", "%">>, 0, "none"),
          Seg("other", <<"%", "d">>, 0, "none")}
    \cup UNION {{Seg(q, (IF q = "es" THEN <<"E">> ELSE <<>>) \o Quote(q)
                         \o Marker(style, 1) \o Quote(q), 0, "marker"),
                 Seg(q, (IF q = "es" THEN <<"E">> ELSE <<>>) \o Quote(q)
                         \o <<"%", "%">> \o Quote(q), 0, "percent"),
                 Seg(q, (IF q = "es" THEN <<"E">> ELSE <<>>) \o Quote(q)
                         \o Escaped(q) \o Quote(q), 0, "escaped")}
                : q \in {"sq", "qi", "es"}}

SegSeqs(style) ==
    UNION {[1..n -> Segments(style)] : n \in 0..MaxSegs}

RECURSIVE Flatten(_)
Flatten(segs) ==
    IF segs = <<>> THEN <<>> ELSE Head(segs).chars \o Flatten(Tail(segs))

NoConversion ==
    [error |-> "none", query |-> <<>>, style |-> "none", placeholders |-> <<>>]

NoMade == [error |-> "none", value |-> NoArgs]

\* The arguments the caller passes with a query of the style.
ArgValue(k) == 100 + k

ArgsFor(style, segs) ==
    IF style \in PositionalStyles
    THEN LET at == {j \in DOMAIN segs : segs[j].kind = "placeholder"}
             n == IF style = "numeric"
                  THEN Cardinality({segs[j].key : j \in at})
                  ELSE Cardinality(at)
         IN  {NoArgs, TupleArgs([i \in 1..n |-> ArgValue(i)])}
    ELSE {DictArgs([n \in {Name(1), Name(2)} |->
                      IF n = Name(1) THEN ArgValue(1) ELSE ArgValue(2)])}

\* A cursor's connection exists; the statement's query is still to convert.
InitConvert ==
    /\ InitCommon
    /\ row_cache_size = 1
    /\ opsLeft = [t \in Threads |-> 0]
    /\ emptyQueries = FALSE
    /\ \E style \in Styles : \E segs \in SegSeqs(style) :
         pure = [op |-> "convert_paramstyle", step |-> "input",
                 style |-> style, segs |-> segs, query |-> Flatten(segs),
                 cv |-> NoConversion, args |-> NoArgs, made |-> NoMade]

\* PreparedStatement.__init__ converts the query.
Convert ==
    /\ pure.op = "convert_paramstyle"
    /\ pure.step = "input"
    /\ pure' = [pure EXCEPT !.step = "converted",
                            !.cv = convert_paramstyle(pure.style, pure.query)]
    /\ UNCHANGED connVars

\* PreparedStatement.execute maps the caller's arguments.
MakeArgs ==
    /\ pure.op = "convert_paramstyle"
    /\ pure.step = "converted"
    /\ pure.cv.error = "none"
    /\ \E args \in ArgsFor(pure.style, pure.segs) :
         pure' = [pure EXCEPT !.step = "called", !.args = args,
                              !.made = make_args(pure.cv, args)]
    /\ UNCHANGED connVars

NextConvert == Convert \/ MakeArgs

SpecConvert == InitConvert /\ [][NextConvert]_vars

\* ------------------------------------------------------- value inspection
\* The integer s * 2^e + off with e in {15, 31, 63} and base = s * e (off
\* alone for base = 0).  |off| is far below 2^15, so two such integers
\* compare by their bases and then by their offsets.
Pow2(base, off) == [base |-> base, off |-> off]

Less(x, y) == x.base < y.base \/ (x.base = y.base /\ x.off < y.off)

min_int2 == Pow2(-15, 0)

max_int2 == Pow2(15, 0)

min_int4 == Pow2(-31, 0)

max_int4 == Pow2(31, 0)

min_int8 == Pow2(-63, 0)

max_int8 == Pow2(63, 0)

\* inspect_int(value): the OID of the type the integer is sent as.
inspect_int(value) ==
    IF Less(min_int2, value) /\ Less(value, max_int2) THEN 21
    ELSE IF Less(min_int4, value) /\ Less(value, max_int4) THEN 23
    ELSE IF Less(min_int8, value) /\ Less(value, max_int8) THEN 20
    ELSE 1700

\* Host values: t is the value's type, num what a number compares as, v a
\* list's elements.  True compares as 1 and the float 1.5 lies, like 1,
\* inside every integer range; the str is one character long.
Val(t, num, v) == [t |-> t, num |-> num, v |-> v]

NoneV == Val("NoneType", Pow2(0, 0), <<>>)

IntV(i) == Val("int", i, <<>>)

BoolV == Val("bool", Pow2(0, 1), <<>>)

FloatV == Val("float", Pow2(0, 1), <<>>)

StrV == Val("str", Pow2(0, 0), <<>>)

ObjectV == Val("object", Pow2(0, 0), <<>>)

ListV(s) == Val("list", Pow2(0, 0), s)

Numbers == {"int", "bool", "float"}

RECURSIVE array_flatten(_)
array_flatten(arr) ==
    IF arr = <<>> THEN <<>>
    ELSE (IF Head(arr).t = "list" THEN array_flatten(Head(arr).v)
          ELSE <<Head(arr)>>) \o array_flatten(Tail(arr))

array_find_first_element(arr) ==
    LET flat == array_flatten(arr)
        at == {i \in DOMAIN flat : flat[i] # NoneV}
    IN  IF at = {} THEN NoneV
        ELSE flat[CHOOSE i \in at : \A j \in at : i <= j]

\* array_check_dimensions(arr): the inner lengths, or the error raised.
\* arr[0] raises TypeError on a value that is neither list nor str and
\* IndexError on an empty list; len() of the one-character str is 1.
RECURSIVE array_check_dimensions(_)
RECURSIVE CheckEach(_, _, _, _)
CheckEach(arr, i, req_len, req_inner) ==
    IF i > Len(arr) THEN [error |-> "none", lengths |-> <<req_len>> \o req_inner]
    ELSE LET inner == array_check_dimensions(arr[i])
             len == IF arr[i].t = "list" THEN Len(arr[i].v) ELSE 1
         IN  IF inner.error # "none" THEN inner
             ELSE IF len # req_len \/ inner.lengths # req_inner
                  THEN [error |-> "ArrayDimensionsNotConsistentError",
                        lengths |-> <<>>]
             ELSE CheckEach(arr, i + 1, req_len, req_inner)

array_check_dimensions(a) ==
    IF a.t = "str" THEN [error |-> "none", lengths |-> <<>>]
    ELSE IF a.t # "list" THEN [error |-> "TypeError", lengths |-> <<>>]
    ELSE IF a.v = <<>> THEN [error |-> "IndexError", lengths |-> <<>>]
    ELSE IF a.v[1].t = "list"
         THEN LET req == array_check_dimensions(a.v[1])
              IN  IF req.error # "none" THEN req
                  ELSE CheckEach(a.v, 1, Len(a.v[1].v), req.lengths)
    ELSE IF \E i \in DOMAIN a.v : a.v[i].t = "list"
         THEN [error |-> "ArrayDimensionsNotConsistentError", lengths |-> <<>>]
    ELSE [error |-> "none", lengths |-> <<>>]

NoInspection == [error |-> "none", typ |-> "none", oid |-> 0, array_typeoid |-> 0]

Rejected(e) == [NoInspection EXCEPT !.error = e]

\* min < v < max as the interpreter evaluates it: between a number and a
\* str or object Python 3 raises TypeError (see array_inspect) and Python 2
\* orders every number before them, so the chain is false.
Within(lo, v, hi) == v.t \in Numbers /\ Less(lo, v.num) /\ Less(v.num, hi)

\* array_inspect(value) up to the definition of send_array.
array_inspect(value, PY2) ==
    LET flat == array_flatten(value.v)
        first == array_find_first_element(value.v)
        some == {flat[i] : i \in {j \in DOMAIN flat : flat[j] # NoneV}}
        int2_ok == \A v \in some : Within(min_int2, v, max_int2)
        int4_ok == \A v \in some : \/ Within(min_int2, v, max_int2)
                                   \/ Within(min_int4, v, max_int4)
        int8_ok == \A v \in some : \/ Within(min_int2, v, max_int2)
                                   \/ Within(min_int4, v, max_int4)
                                   \/ Within(min_int8, v, max_int8)
    IN  IF first = NoneV THEN Rejected("ArrayContentEmptyError")
        ELSE IF first.t \in {"int", "bool"}
        THEN IF ~PY2 /\ \E v \in some : v.t \notin Numbers
             THEN Rejected("TypeError")
             ELSE IF int2_ok
                  THEN [error |-> "none", typ |-> "integer_types", oid |-> 21,
                        array_typeoid |-> 1005]
             ELSE IF int4_ok
                  THEN [error |-> "none", typ |-> "integer_types", oid |-> 23,
                        array_typeoid |-> 1007]
             ELSE IF int8_ok
                  THEN [error |-> "none", typ |-> "integer_types", oid |-> 20,
                        array_typeoid |-> 1016]
             ELSE Rejected("ArrayContentNotSupportedError")
        ELSE IF first.t = "str"
        THEN [error |-> "none", typ |-> "str", oid |-> 25, array_typeoid |-> 1009]
        ELSE IF first.t = "float"
        THEN [error |-> "none", typ |-> "float", oid |-> 701,
              array_typeoid |-> 1022]
        ELSE Rejected("ArrayContentNotSupportedError")

\* isinstance(v, typ); bool is a subclass of int.
IsInstance(v, typ) ==
    IF typ = "integer_types" THEN v.t \in {"int", "bool"} ELSE v.t = typ

\* array_dim_lengths(arr) of a list that passed array_check_dimensions.
RECURSIVE array_dim_lengths(_)
array_dim_lengths(arr) ==
    LET v0 == arr.v[1]
    IN  IF v0.t = "list"
        THEN <<Len(v0.v)>> \o array_dim_lengths(v0)
        ELSE <<Len(arr.v)>>

\* What send_array writes after its checks: the number of dimensions, per
\* dimension its length and the lower bound 1, and per element of
\* array_flatten(arr) the length -1 for None or the element's encoding.
NoArrayData == [ndim |-> 0, dims |-> <<>>, elems |-> <<>>]

ArrayData(arr) ==
    LET dim_lengths == array_dim_lengths(arr)
        flat == array_flatten(arr.v)
    IN  [ndim |-> Len(dim_lengths),
         dims |-> [i \in DOMAIN dim_lengths |-> <<dim_lengths[i], 1>>],
         elems |-> [i \in DOMAIN flat |->
                      [null |-> flat[i] = NoneV, v |-> flat[i]]]]

\* send_array(arr): the two checks before the encoding; the error raised.
send_array(value, typ) ==
    LET flat == array_flatten(value.v)
    IN  IF \E i \in DOMAIN flat : flat[i] # NoneV /\ ~IsInstance(flat[i], typ)
        THEN "ArrayContentNotHomogenousError"
        ELSE array_check_dimensions(value).error

\* The integers inspected: around 0 and around each power of two.
MaxOff == 2

IntValues ==
    {Pow2(b, o) : b \in {-63, -31, -15, 0, 15, 31, 63}, o \in -MaxOff..MaxOff}

\* The lists inspected: up to MaxDepth levels of up to MaxLen elements.
MaxDepth == 2

MaxLen == 2

Scalars ==
    {NoneV, BoolV, FloatV, StrV, ObjectV}
    \cup {IntV(i) : i \in {Pow2(0, 0), min_int2, min_int4, min_int8, max_int8}}

RECURSIVE Nested(_)
Nested(d) ==
    IF d = 0 THEN Scalars
    ELSE LET E == Nested(d - 1)
         IN  E \cup {ListV(s) : s \in UNION {[1..n -> E] : n \in 0..MaxLen}}

InitInspect ==
    /\ InitCommon
    /\ row_cache_size = 1
    /\ opsLeft = [t \in Threads |-> 0]
    /\ emptyQueries = FALSE
    /\ \/ \E v \in IntValues :
            pure = [op |-> "inspect_int", step |-> "input", value |-> v,
                    PY2 |-> FALSE, r |-> NoInspection]
       \/ \E v \in {x \in Nested(MaxDepth) : x.t = "list"} : \E py2 \in BOOLEAN :
            pure = [op |-> "array_inspect", step |-> "input", value |-> v,
                    PY2 |-> py2, r |-> NoInspection, data |-> NoArrayData]

\* make_params: an int goes to inspect_funcs[int].
InspectInt ==
    /\ pure.op = "inspect_int"
    /\ pure.step = "input"
    /\ pure' = [pure EXCEPT !.step = "inspected",
                            !.r.oid = inspect_int(pure.value)]
    /\ UNCHANGED connVars

\* make_params: a list goes to inspect_funcs[list].
ArrayInspect ==
    /\ pure.op = "array_inspect"
    /\ pure.step = "input"
    /\ pure' = [pure EXCEPT !.step = "inspected",
                            !.r = array_inspect(pure.value, pure.PY2)]
    /\ UNCHANGED connVars

\* bind calls the send function array_inspect returned.
SendArray ==
    /\ pure.op = "array_inspect"
    /\ pure.step = "inspected"
    /\ pure.r.error = "none"
    /\ LET error == send_array(pure.value, pure.r.typ)
       IN  pure' = [pure EXCEPT !.step = "sent", !.r.error = error,
                                !.data = IF error = "none"
                                         THEN ArrayData(pure.value)
                                         ELSE NoArrayData]
    /\ UNCHANGED connVars

NextInspect == InspectInt \/ ArrayInspect \/ SendArray

SpecInspect == InitInspect /\ [][NextInspect]_vars

\* ------------------------------------------------------------ properties
OnSocket(t) == pc[t] \in {"send", "dispatch"}

\* C1: at most one request/response exchange is in flight on the connection:
\* from a thread's send to the ReadyForQuery that ends its exchange the
\* thread holds the socket lock, no other thread writes to or reads from the
\* socket, and nothing of a finished exchange is left in the receive buffer.
C1_OneExchangeInFlight ==
    /\ \A t, u \in Threads : OnSocket(t) /\ OnSocket(u) => t = u
    /\ \A t \in Threads : OnSocket(t) => sockLock = t
    /\ wire.owner # 0 => /\ pc[wire.owner] = "dispatch"
                         /\ wire.io = wire.owner
    /\ wire.owner = 0 => inbox = <<>>

\* Two threads contend: one is inside its exchange while the other waits for
\* the socket lock with a commit, a rollback, a fetch or a Connection.close.
C1_Witness ==
    \E t, u \in Threads :
        /\ t # u
        /\ wire.owner = t /\ pc[t] = "dispatch" /\ ctx[t].op = "execute"
        /\ pc[u] = "lock"
        /\ ctx[u].op \in {"commit", "rollback", "connclose", "fetch", "curclose"}

\* PreparedStatement.execute of thread t is about to return.
ExecuteReturns(t) == pc[t] = "ps_unlock"

\* C2 as stated: every execute that returns has read exactly one
\* ReadyForQuery since it started, with or without a result set.
C2_OneReadyForQuery ==
    \A t \in Threads : ExecuteReturns(t) => ctx[t].rfq = 1

\* C2: an execute that returns has read exactly one ReadyForQuery when the
\* statement has a result set, and exactly two when it has none (the one
\* ending the Execute and the one ending the Close of its portal).
C2_ReadyForQueryPerExecute ==
    \A t \in Threads :
        ExecuteReturns(t) =>
            ctx[t].rfq = IF ps[ctx[t].ps].portal_row_desc = 0 THEN 2 ELSE 1

\* A cursor's execute of a statement without result set returns.
C2_Witness ==
    \E t \in Threads :
        /\ ExecuteReturns(t)
        /\ ctx[t].op = "execute" /\ ctx[t].sql.k = "insert"
        /\ ps[ctx[t].ps].portal_row_desc = 0
        /\ ctx[t].rfq = 2

\* The cursor of thread t has a statement, and that statement's fields.
HasStmt(t) == cur[t].stmt # NoPs
Stmt(t) == ps[cur[t].stmt]

\* The fetch thread t called last has returned result.
Fetched(t, result) ==
    pc[t] = "idle" /\ ctx[t].op = "fetch" /\ ctx[t].result = result

\* C3: the i-th DataRow of a portal is <<portal, i>>.  The k-th fetch after
\* an execute returns the k-th DataRow of that execute's portal, the cached
\* rows are the DataRows that follow it, in order; when a fetch returns None
\* for a portal that ran to completion, all N rows have been returned, and
\* every later fetch returns None.
C3_RowsOnceInOrder ==
    \A t \in Threads :
        HasStmt(t) =>
            /\ Fetched(t, "row") =>
                   ctx[t].row = <<Stmt(t).portal_name, cur[t].n_ret>>
            /\ \A i \in DOMAIN Stmt(t).cached_rows :
                   Stmt(t).cached_rows[i] =
                       <<Stmt(t).portal_name, cur[t].n_ret + i>>
            /\ cur[t].n_ret + Len(Stmt(t).cached_rows) <= Stmt(t).sql.n
            /\ cur[t].done /\ Stmt(t).n_err = 0 =>
                   cur[t].n_ret = Stmt(t).sql.n
            /\ cur[t].done /\ pc[t] = "idle" /\ ctx[t].op = "fetch"
                  /\ ~conn.closed =>
                   ctx[t].result = "None"

\* A result of MaxRows rows, fetched in batches of one row, has been read to
\* its end.
C3_Witness ==
    \E t \in Threads :
        /\ HasStmt(t) /\ Fetched(t, "None") /\ cur[t].done
        /\ row_cache_size = 1 /\ Stmt(t).sql.n = MaxRows
        /\ cur[t].n_ret = MaxRows

\* C10: with row_cache_size = C, a result of N rows read until a fetch
\* returns None, no Execute having failed, took N \div C + 1 Execute
\* messages, N \div C PortalSuspended and one CommandComplete; every Execute
\* written for a statement with a result set carries the row limit C.
C10_ExecutesPerResult ==
    \A t \in Threads :
        /\ HasStmt(t) /\ cur[t].done /\ Stmt(t).n_err = 0 =>
              /\ Stmt(t).n_exec = (Stmt(t).sql.n \div row_cache_size) + 1
              /\ Stmt(t).n_susp = Stmt(t).sql.n \div row_cache_size
              /\ Stmt(t).n_cc = 1
        /\ pc[t] = "dispatch" /\ ps[ctx[t].ps].portal_row_desc > 0 =>
              \A i \in DOMAIN wire.burst :
                  wire.burst[i].m = "Execute" =>
                      wire.burst[i].k = row_cache_size

\* A result with more rows than one batch holds, a multiple of the batch
\* size, has been read to its end in three Executes.
C10_Witness ==
    \E t \in Threads :
        /\ HasStmt(t) /\ cur[t].done /\ Stmt(t).n_err = 0
        /\ Stmt(t).sql.n = 2 /\ row_cache_size = 1
        /\ Stmt(t).n_exec = 3 /\ Stmt(t).n_susp = 2 /\ Stmt(t).n_cc = 1

\* C4: whenever the dispatch loop run for a statement raises, the message
\* it read last was ReadyForQuery and nothing the backend sent for the
\* exchange is left unread.
C4_RaisesAfterReadyForQuery ==
    \A t \in Threads :
        pc[t] = "idle" /\ ctx[t].hm =>
            ctx[t].last = "Z" /\ ctx[t].unread = 0

\* No call is in progress.
BetweenOperations == \A t \in Threads : pc[t] = "idle"

\* C5: between operations, in_transaction is true exactly when autocommit is
\* off and the ReadyForQuery read last carried the status T or E.
C5_InTransactionIffStatus ==
    BetweenOperations =>
        (conn.in_transaction <=>
            (~conn.autocommit /\ conn.ready_status \in {"T", "E"}))

\* Thread t has written the burst of the given exchange and is reading the
\* answers: wire.burst is that burst.
InExchange(t, phase) == pc[t] = "dispatch" /\ ctx[t].phase = phase

\* C8: every Close(Portal) the client writes names the portal of the
\* statement's most recent Bind, and is followed by Sync and the dispatch
\* that reads the answers.
C8_ClosePortalNamesLivePortal ==
    \A t \in Threads :
        InExchange(t, "closeP") =>
            wire.burst = <<MClose("P", ps[ctx[t].ps].portal_name), MSync>>

\* C9: no Close(Statement) is ever written for the unnamed statement, and
\* the close of a named statement writes exactly Close(Statement, name)
\* and Sync, once.
C9_UnnamedNeverClosed ==
    /\ \A i \in DOMAIN wire.burst :
          ~(/\ wire.burst[i].m = "Close" /\ wire.burst[i].t = "S"
            /\ wire.burst[i].n = UnnamedStmt)
    /\ \A t \in Threads :
          /\ InExchange(t, "closeS") =>
                /\ ps[ctx[t].ps].statement_name # UnnamedStmt
                /\ wire.burst =
                       <<MClose("S", ps[ctx[t].ps].statement_name), MSync>>
                /\ ctx[t].rfq = 0
          /\ pc[t] = "after_closeS" /\ ctx[t].op = "ps_close" =>
                ctx[t].rfq = 1
          /\ ctx[t].op = "curclose" => ctx[t].phase # "closeS"

\* A named statement is being closed by a thread whose cursor holds an
\* executed (unnamed) statement.
C9_Witness ==
    \E t \in Threads :
        /\ InExchange(t, "closeS") /\ ctx[t].op = "ps_close"
        /\ HasStmt(t) /\ Stmt(t).statement_name = UnnamedStmt

\* C6: while a thread reads the answers to its Bind or to its refilling
\* Execute, it alone has used the socket since it wrote the request, the
\* request names its own portal and every DataRow waiting to be read is a
\* row of that portal; every cached row is a row of the caching statement's
\* own portal, portals of different statements differ, and a fetch returns
\* a row of its own cursor's portal.
C6_ExecuteAndPrefetchAtomic ==
    /\ \A t \in Threads :
          InExchange(t, "bind") \/ InExchange(t, "exec") =>
              /\ wire.owner = t /\ wire.io = t
              /\ \A i \in DOMAIN wire.burst :
                    wire.burst[i].m \in {"Bind", "Execute"} =>
                        wire.burst[i].n = ps[ctx[t].ps].portal_name
              /\ \A i \in DOMAIN inbox :
                    inbox[i].tag = "D" =>
                        inbox[i].p = ps[ctx[t].ps].portal_name
    /\ \A a \in PsIds :
          /\ \A i \in DOMAIN ps[a].cached_rows :
                ps[a].cached_rows[i][1] = ps[a].portal_name
          /\ \A b \in PsIds \ {a} :
                ps[a].portal_name # NoneName =>
                    ps[a].portal_name # ps[b].portal_name
    /\ \A t \in Threads :
          HasStmt(t) /\ Fetched(t, "row") =>
              ctx[t].row[1] = Stmt(t).portal_name

\* One cursor's Bind is being answered with rows while the other cursor,
\* with a row already fetched, waits for the socket to refill its cache.
C6_Witness ==
    \E t, u \in Threads :
        /\ t # u
        /\ InExchange(t, "bind")
        /\ \E i \in DOMAIN inbox : inbox[i].tag = "D"
        /\ pc[u] = "lock" /\ ctx[u].phase = "exec" /\ cur[u].n_ret > 0

\* The statements of the cursors.
CursorPs(t) == {CurPs(t, 0), CurPs(t, 1)}

\* C7: a cursor holds the unnamed-statement lock from before its Parse of
\* the unnamed statement to the end of its Bind and prefetch, so the
\* unnamed statement at the backend is its own while it binds and every
\* portal is a portal of the SQL its cursor parsed; no thread holds the
\* lock once its execute or executemany has returned or raised.
C7_UnnamedStatementSerialized ==
    \A t \in Threads :
        /\ pc[t] = "idle" => unnamedLock # t
        /\ pc[t] # "idle" /\ ctx[t].ps \in CursorPs(t)
              /\ ctx[t].op \in {"execute", "executemany"} =>
              unnamedLock = t
        /\ pc[t] = "dispatch" /\ wire.burst[1].m = "Parse"
              /\ wire.burst[1].n = UnnamedStmt =>
              unnamedLock = t
        /\ unnamedLock = t /\ ctx[t].meth = "execute" =>
              /\ UnnamedStmt \in DOMAIN srv.stmts
              /\ srv.stmts[UnnamedStmt] = ps[ctx[t].ps].sql
        /\ HasStmt(t) /\ Stmt(t).portal_name \in DOMAIN srv.portals =>
              srv.portals[Stmt(t).portal_name].sql = Stmt(t).sql

\* One cursor is between its Parse and the end of its Bind while the other
\* waits for the unnamed-statement lock.
C7_Witness ==
    \E t, u \in Threads :
        /\ t # u
        /\ unnamedLock = t /\ InExchange(t, "bind")
        /\ pc[u] = "unnamed_lock"

\* ------------------------------------------- properties: convert_paramstyle
PercentStyle(style) == style \in {"format", "pyformat"}

PlaceholderIdx(segs) == {i \in DOMAIN segs : segs[i].kind = "placeholder"}

\* A query its style's dialect accepts: in the % styles no %X other than
\* the placeholder and %%, in the numeric style the numbers 1..k, in the
\* named style no name running into the text that follows it.
WellFormed(style, segs) ==
    /\ PercentStyle(style) =>
         \A i \in DOMAIN segs : segs[i].kind # "other" /\ segs[i].inner # "marker"
    /\ style = "numeric" =>
         LET used == {segs[i].key : i \in PlaceholderIdx(segs)}
         IN  used = 1..Cardinality(used)
    /\ style = "named" =>
         \A i \in PlaceholderIdx(segs) :
            i < Len(segs) => Head(segs[i + 1].chars) \notin Alnum

\* The parameter number the dialect gives the placeholder at segment i.
Number(style, segs, i) ==
    CASE style \in {"qmark", "format"} ->
           Cardinality({j \in PlaceholderIdx(segs) : j <= i})
      [] style = "numeric" -> segs[i].key
      [] OTHER ->
           LET first == CHOOSE j \in PlaceholderIdx(segs) :
                           /\ segs[j].key = segs[i].key
                           /\ \A l \in PlaceholderIdx(segs) :
                                 segs[l].key = segs[i].key => j <= l
           IN  Cardinality({segs[j].key : j \in {l \in PlaceholderIdx(segs) : l <= first}})

RECURSIVE Unescape(_)
Unescape(chars) ==
    IF Len(chars) >= 2 /\ chars[1] = "%" /\ chars[2] = "%"
    THEN <<"%">> \o Unescape(SubSeq(chars, 3, Len(chars)))
    ELSE IF chars = <<>> THEN <<>>
    ELSE <<Head(chars)>> \o Unescape(Tail(chars))

RECURSIVE ExpectedFrom(_, _, _)
ExpectedFrom(style, segs, i) ==
    IF i > Len(segs) THEN <<>>
    ELSE (CASE segs[i].kind = "placeholder" ->
                 <<"$">> \o Str(Number(style, segs, i))
            [] segs[i].kind # "placeholder" /\ PercentStyle(style) ->
                 Unescape(segs[i].chars)
            [] OTHER -> segs[i].chars)
         \o ExpectedFrom(style, segs, i + 1)

ExpectedQuery(style, segs) == ExpectedFrom(style, segs, 1)

\* The numbers N of the $N markers of a converted query.
MarkerNumbers(out) ==
    {n \in 1..9 : \E i \in 1..(Len(out) - 1) :
                     out[i] = "$" /\ <<out[i + 1]>> = Str(n)}

Converted == pure.op = "convert_paramstyle" /\ pure.step # "input"

Called == pure.op = "convert_paramstyle" /\ pure.step = "called"

\* C11: for every style and well-formed query the output is the query with
\* each placeholder replaced by its $N and all other text copied, the
\* positional styles' make_args returns the arguments unchanged (() for
\* None), the named styles' make_args returns a tuple, and the markers are
\* numbered exactly 1..k for the k values make_args returns.
C11_MarkersNumberedAsArgs ==
    (Converted /\ WellFormed(pure.style, pure.segs)) =>
       /\ pure.cv.error = "none"
       /\ pure.cv.query = ExpectedQuery(pure.style, pure.segs)
       /\ pure.step = "called" =>
            /\ pure.made.error = "none"
            /\ pure.made.value.kind = "tuple"
            /\ pure.style \in PositionalStyles =>
                 pure.made.value =
                    (IF pure.args = NoArgs THEN TupleArgs(<<>>) ELSE pure.args)
            /\ pure.args # NoArgs =>
                 MarkerNumbers(pure.cv.query) = 1..Len(pure.made.value.v)

\* The numbers of the $N markers of a converted query, in output order.
RECURSIVE MarkerSeq(_)
MarkerSeq(out) ==
    IF Len(out) < 2 THEN <<>>
    ELSE IF out[1] = "$"
         THEN <<CHOOSE n \in 1..9 : Str(n) = <<out[2]>> >>
              \o MarkerSeq(SubSeq(out, 3, Len(out)))
    ELSE MarkerSeq(Tail(out))

\* The placeholder segments' positions, in query order.
RECURSIVE PlaceholdersFrom(_, _)
PlaceholdersFrom(segs, i) ==
    IF i > Len(segs) THEN <<>>
    ELSE (IF segs[i].kind = "placeholder" THEN <<i>> ELSE <<>>)
         \o PlaceholdersFrom(segs, i + 1)

\* The distinct placeholder names in the order of their first appearance.
NamesInOrder(style, segs) ==
    LET keys == {segs[i].key : i \in PlaceholderIdx(segs)}
    IN  [r \in 1..Cardinality(keys) |->
            Name(CHOOSE k \in keys : \E i \in PlaceholderIdx(segs) :
                    segs[i].key = k /\ Number(style, segs, i) = r)]

\* C12: in the named and pyformat styles each occurrence of a name becomes
\* $N with N the rank of the name's first appearance among distinct names,
\* and make_args(args) is (args[name_1], ..., args[name_k]) in that order.
C12_SameNameSameNumber ==
    (Converted /\ pure.style \in {"named", "pyformat"}
       /\ WellFormed(pure.style, pure.segs)) =>
       LET at == PlaceholdersFrom(pure.segs, 1)
           names == NamesInOrder(pure.style, pure.segs)
       IN  /\ pure.cv.error = "none"
           /\ MarkerSeq(pure.cv.query) =
                 [j \in 1..Len(at) |-> Number(pure.style, pure.segs, at[j])]
           /\ pure.step = "called" =>
                /\ pure.made.error = "none"
                /\ pure.made.value =
                      TupleArgs([r \in 1..Len(names) |-> pure.args.v[names[r]]])

\* C13: in the format and pyformat styles every %% comes out as one % and
\* takes no parameter number, the placeholders around it are translated as
\* without it, make_args stays the dialect's, and a %X other than the
\* placeholder and %% raises QueryParameterParseError.
C13_PercentEscapeIsNeutral ==
    (Converted /\ PercentStyle(pure.style)) =>
       /\ WellFormed(pure.style, pure.segs) =>
            /\ pure.cv.error = "none"
            /\ pure.cv.query = ExpectedQuery(pure.style, pure.segs)
            /\ (pure.cv.style \in PositionalStyles)
                  = (pure.style \in PositionalStyles)
       /\ (\E i \in DOMAIN pure.segs : pure.segs[i].kind = "other") =>
            pure.cv.error = "QueryParameterParseError"

Quoted(seg) == seg.kind \in {"sq", "qi", "es"}

\* Segment j ends where the scanner reads its region's end: a ' that closes
\* a '...' string is not followed by another ' (the pair is an escaped quote).
Closes(segs, j) ==
    ~(segs[j].kind = "sq" /\ j < Len(segs) /\ Head(segs[j + 1].chars) = "'")

\* The number of characters before segment j.
Offset(segs, j) == Len(Flatten(SubSeq(segs, 1, j - 1)))

\* The scanner when it reaches segment j, and when it has passed it.
ScanBefore(style, segs, j) ==
    ScanFrom(NewScan(style), Flatten(segs), 1, Offset(segs, j))

ScanAfter(style, segs, j) ==
    ScanFrom(NewScan(style), Flatten(segs), 1, Offset(segs, j + 1))

\* The scanner of ScanBefore(style, segs, j) run over segment j + 1 as if
\* segment j were not in the query.
ScanSkipping(style, segs, j) ==
    LET without == SubSeq(segs, 1, j - 1) \o SubSeq(segs, j + 1, Len(segs))
    IN  ScanFrom(ScanBefore(style, segs, j), Flatten(without),
                 Offset(without, j) + 1, Offset(without, j + 1))

\* What a scan has added to the output since an earlier point of it.
Added(a, b) ==
    SubSeq(b.output_query, Len(a.output_query) + 1, Len(b.output_query))

\* C14: a quoted region ('...' with '' inside, "...", E'...' with \' inside)
\* met outside quotes is copied as it stands (a %% in it as one %), takes no
\* parameter number and adds no name; in the % styles a % in it that is not
\* part of %% raises QueryParameterParseError; past its closing quote the
\* scanner is in the OUTSIDE state and handles a placeholder that follows
\* as it would have handled it in the region's place.
C14_QuotedRegionsAreOpaque ==
    Converted =>
      \A j \in DOMAIN pure.segs :
        LET a == ScanBefore(pure.style, pure.segs, j)
            b == ScanAfter(pure.style, pure.segs, j)
        IN  (Quoted(pure.segs[j]) /\ Closes(pure.segs, j)
               /\ a.error = "none" /\ a.state = "OUTSIDE") =>
              IF PercentStyle(pure.style) /\ pure.segs[j].inner = "marker"
              THEN b.error = "QueryParameterParseError"
              ELSE /\ b.error = "none"
                   /\ b.state = "OUTSIDE"
                   /\ b.output_query = a.output_query \o
                         (IF PercentStyle(pure.style)
                          THEN Unescape(pure.segs[j].chars)
                          ELSE pure.segs[j].chars)
                   /\ b.param_idx = a.param_idx
                   /\ b.placeholders = a.placeholders
                   /\ b.style = a.style
                   /\ (j < Len(pure.segs) /\ pure.segs[j + 1].kind = "placeholder") =>
                        LET c == ScanAfter(pure.style, pure.segs, j + 1)
                            d == ScanSkipping(pure.style, pure.segs, j)
                        IN  /\ c.error = d.error
                            /\ c.state = d.state
                            /\ c.param_idx = d.param_idx
                            /\ c.placeholders = d.placeholders
                            /\ Added(b, c) = Added(a, d)

\* A marker inside a quoted region was copied and the placeholder after the
\* region was translated.
C14_Witness ==
    /\ Converted
    /\ pure.cv.error = "none"
    /\ \E j \in DOMAIN pure.segs :
         /\ Quoted(pure.segs[j])
         /\ pure.segs[j].inner = "marker"
         /\ j < Len(pure.segs)
         /\ pure.segs[j + 1].kind = "placeholder"
         /\ Added(ScanAfter(pure.style, pure.segs, j),
                  ScanAfter(pure.style, pure.segs, j + 1))
               = <<"$">> \o Str(Number(pure.style, pure.segs, j + 1))
         /\ pure.cv.query = ExpectedQuery(pure.style, pure.segs)

\* ---------------------------------------------- properties: inspection
\* The OID of the smallest of int2, int4, int8, numeric whose signed range
\* [-2^(w-1), 2^(w-1) - 1] contains v.
SmallestFit(v) ==
    IF ~Less(v, Pow2(-15, 0)) /\ ~Less(Pow2(15, -1), v) THEN 21
    ELSE IF ~Less(v, Pow2(-31, 0)) /\ ~Less(Pow2(31, -1), v) THEN 23
    ELSE IF ~Less(v, Pow2(-63, 0)) /\ ~Less(Pow2(63, -1), v) THEN 20
    ELSE 1700

\* int2, int4, int8, numeric from the smallest to the largest.
Width(oid) == CASE oid = 21 -> 1 [] oid = 23 -> 2 [] oid = 20 -> 3 [] OTHER -> 4

NonNull(value) ==
    LET flat == array_flatten(value.v)
    IN  {flat[i] : i \in {j \in DOMAIN flat : flat[j] # NoneV}}

\* C15: an integer is sent as the smallest of int2 (21), int4 (23), int8
\* (20), numeric (1700) whose signed range contains it, the boundary values
\* included, and an array of integers as the smallest that contains all its
\* flattened values.
C15_SmallestFit ==
    /\ (pure.op = "inspect_int" /\ pure.step = "inspected") =>
          pure.r.oid = SmallestFit(pure.value)
    /\ (pure.op = "array_inspect" /\ pure.step = "inspected"
          /\ NonNull(pure.value) # {}
          /\ \A v \in NonNull(pure.value) : v.t = "int") =>
          /\ pure.r.error = "none"
          /\ \E v \in NonNull(pure.value) : pure.r.oid = SmallestFit(v.num)
          /\ \A v \in NonNull(pure.value) :
                Width(SmallestFit(v.num)) <= Width(pure.r.oid)

\* The shape of a value: a scalar has none, a list has its length and the
\* shape of its elements when they all have the same one.
RECURSIVE Rectangular(_)
RECURSIVE Shape(_)
Shape(x) ==
    IF x.t # "list" THEN <<>>
    ELSE IF x.v = <<>> THEN <<0>>
    ELSE <<Len(x.v)>> \o Shape(x.v[1])

Rectangular(x) ==
    x.t = "list" =>
       /\ \A i \in DOMAIN x.v : Rectangular(x.v[i])
       /\ \A i, j \in DOMAIN x.v :
             x.v[i].t = x.v[j].t /\ Shape(x.v[i]) = Shape(x.v[j])

\* What the three rules give for a list: the first rule it breaks, if any.
Verdict(value) ==
    IF NonNull(value) = {} THEN "ArrayContentEmptyError"
    ELSE IF \E v, w \in NonNull(value) : v.t # w.t
         THEN "ArrayContentNotHomogenousError"
    ELSE IF ~Rectangular(value) THEN "ArrayDimensionsNotConsistentError"
    ELSE "none"

\* C16: a list is inspected and sent without error exactly if it has a
\* non-null element, its non-null elements have one host type and it is
\* rectangular at every depth; otherwise the error raised is
\* ArrayContentEmptyError, ArrayContentNotHomogenousError or
\* ArrayDimensionsNotConsistentError respectively.
C16_ListAcceptedIffWellShaped ==
    (pure.op = "array_inspect"
       /\ (pure.step = "sent" \/ (pure.step = "inspected" /\ pure.r.error # "none")))
    => pure.r.error = Verdict(pure.value)

\* ------------------------------------------------------------------ COPY
\* The bytes the first i frames carry.
RECURSIVE Carried(_, _)
Carried(frames, i) == IF i = 0 THEN 0 ELSE Carried(frames, i - 1) + frames[i].k

\* frames are CopyData messages that cut the bytes 1..len into consecutive
\* non-empty pieces of at most ChunkSize bytes.
CutsStream(frames, len) ==
    /\ \A i \in 1..Len(frames) :
         /\ frames[i].m = "CopyData"
         /\ frames[i].k \in 1..ChunkSize
         /\ frames[i].n = <<"bytes", Carried(frames, i - 1)>>
    /\ Carried(frames, Len(frames)) = len

\* Thread t has handled the CopyInResponse of its COPY FROM and not yet read
\* the ReadyForQuery that ends the exchange.
CopiedIn(t) ==
    /\ pc[t] = "dispatch"
    /\ ctx[t].op = "copy_from"
    /\ ctx[t].ps # BeginPs
    /\ ctx[t].last \in {"G", "C"}

\* C17: from the CopyInResponse of a COPY FROM with a stream up to the
\* ReadyForQuery, what the client has written last is CopyData frames with
\* non-empty payloads of at most 8192 bytes that together are the stream's
\* content in order, then one CopyDone and one Sync, and the thread holds
\* the socket lock.
C17_CopyInSendsStreamThenDoneSync ==
    \A t \in Threads :
        CopiedIn(t) =>
            LET b == wire.burst
                n == Len(b)
            IN  /\ sockLock = t
                /\ n >= 2
                /\ b[n - 1] = MCopyDone /\ b[n] = MSync
                /\ CutsStream(SubSeq(b, 1, n - 2), ps[ctx[t].ps].stream.len)

\* A stream of MaxChunks buffers and a byte, read in short reads, has been
\* sent and its CommandComplete read.
C17_Witness ==
    /\ CopiedIn(1)
    /\ ctx[1].last = "C"
    /\ ps[ctx[1].ps].stream.len = MaxChunks * ChunkSize + 1
    /\ ps[ctx[1].ps].stream.cap < ChunkSize
    /\ Len(wire.burst) > MaxChunks + 3
    /\ ps[ctx[1].ps].row_count = MaxChunks * ChunkSize + 1

\* Thread t runs, or has left, a COPY statement executed with None for the
\* stream (a call that raised before Cursor.execute executed nothing).
NoStreamCopy(t) ==
    /\ ctx[t].op \in {"copy_from", "copy_to"}
    /\ ctx[t].stream = NoneStream
    /\ ctx[t].result \notin {"CopyQueryOrTableRequiredError", "CursorClosedError"}

\* The thread reads from the socket, the backend has sent all it had to
\* send and waits for the client: the read never returns.
WaitsForever(t) == pc[t] = "dispatch" /\ inbox = <<>>

\* C18: a COPY FROM or COPY TO executed without a stream never waits for
\* ever for a ReadyForQuery, and when the call has ended it has failed with
\* CopyQueryWithoutStreamError and with no other error.
C18_NoStreamFailsWithCopyError ==
    \A t \in Threads :
        NoStreamCopy(t) =>
            /\ ~WaitsForever(t)
            /\ pc[t] = "idle" => ctx[t].result = "CopyQueryWithoutStreamError"

\* The payloads of the CopyData frames the backend has sent and the client
\* has not read yet, in order.
IsCopyData(m) == m.tag = "d"
RECURSIVE Payloads(_)
Payloads(msgs) ==
    IF msgs = <<>> THEN <<>> ELSE <<Head(msgs).a>> \o Payloads(Tail(msgs))
UnreadCopyData == Payloads(SelectSeq(inbox, IsCopyData))

\* The payloads of the frames the backend sends between CopyOutResponse and
\* CopyDone for the statement p, once its Execute has been sent.
CopyOutFrames(p) == IF p.n_exec = 0 THEN <<>> ELSE [i \in 1..p.sql.n |-> i]

\* C19: what a COPY TO with a stream has written to the stream, followed by
\* the CopyData payloads still to be read, is the sequence of the payloads
\* sent between CopyOutResponse and CopyDone: every payload is written once,
\* in arrival order, and nothing else is written, before or after CopyDone.
C19_CopyOutWritesFramesInOrder ==
    \A id \in PsIds :
        (ps[id].sql.k = "copy_to" /\ ps[id].stream.kind = "file") =>
            ps[id].stream.written \o UnreadCopyData = CopyOutFrames(ps[id])

\* A COPY TO of MaxRows rows has returned and the stream holds them.
C19_Witness ==
    /\ pc[1] = "idle" /\ ctx[1].op = "copy_to" /\ ctx[1].result = "ok"
    /\ cur[1].stmt # NoPs
    /\ ps[cur[1].stmt].sql = Sql("copy_to", MaxRows, 1)
    /\ Len(ps[cur[1].stmt].stream.written) = MaxRows
    /\ conn.copy_done
    /\ inbox = <<>>

\* --------------------------------------------------------- notifications
IsNotification(m) == m.tag = "A"
RECURSIVE Entries(_)
Entries(msgs) ==
    IF msgs = <<>> THEN <<>>
    ELSE <<<<Head(msgs).a, Head(msgs).p>>>> \o Entries(Tail(msgs))

\* The (pid, condition) of the NotificationResponse messages not read yet.
UnreadNotifications == Entries(SelectSeq(inbox, IsNotification))

\* C20: the notification queue followed by the notifications still unread
\* is the sequence of the NotificationResponse messages the backend sent:
\* every one read appended its (pid, condition) once, in arrival order, and
\* nothing else changed the queue; the notification channel has fired once
\* per entry.
C20_NotificationsQueuedOnceInOrder ==
    /\ conn.notifies \o UnreadNotifications = srv.notified
    /\ conn.fired = Len(conn.notifies)

\* --------------------------------------------------------------- startup
\* connect() has failed on reading an ErrorResponse.
FailedOnError(t) ==
    /\ pc[t] = "idle" /\ ctx[t].op = "connect"
    /\ ctx[t].hm /\ ctx[t].last = "E"

\* C21: an ErrorResponse with code 28000 makes the pending operation fail
\* with InterfaceError, every other ErrorResponse with ProgrammingError.
C21_ErrorResponseRaisedByCode ==
    \A t \in Threads :
        FailedOnError(t) =>
            ctx[t].result = IF srv.plan.error = "28000" THEN "InterfaceError"
                            ELSE "ProgrammingError"

\* The last message connect() read is an AuthenticationRequest.
ReadAuth(t) == ctx[t].op = "connect" /\ ctx[t].last = "R"

\* C22: AuthenticationRequest 0 is accepted and nothing is sent; 5 is
\* answered by exactly one PasswordMessage, or fails with InterfaceError
\* when there is no password; 2, 3, 4, 6, 7, 8, 9 fail with
\* NotSupportedError and every other code with InternalError.
C22_AuthenticationRequestByCode ==
    \A t \in Threads :
        ReadAuth(t) =>
            IF pc[t] = "dispatch"
            THEN /\ srv.plan.code \in {0, 5}
                 /\ wire.burst = IF srv.plan.code = 0 THEN <<MStartup>>
                                  ELSE <<MPassword>>
            ELSE ctx[t].result =
                     CASE srv.plan.code = 5 /\ conn.password = "None" ->
                              "InterfaceError"
                       [] srv.plan.code \in {2, 3, 4, 6, 7, 8, 9} ->
                              "NotSupportedError"
                       [] OTHER -> "InternalError"

\* ------------------------------------------------------ Connection.close
\* The step is thread t's _send_messages on the closed connection.
WritesClosed(t) == conn.closed /\ pc[t] = "send" /\ pc'[t] # "send"

\* C23: Connection.close writes one Terminate under the socket lock and
\* releases the lock; after it nothing is written any more, and every
\* operation that comes to write fails with InterfaceError and leaves the
\* socket lock released.
C23_ClosedConnectionRefusesWrites ==
    [][/\ (~conn.closed /\ conn'.closed) =>
            /\ sockLock # 0 /\ pc[sockLock] = "send"
            /\ wire'.burst = <<MTerminate>>
            /\ sockLock' = 0
       /\ conn.closed =>
            /\ conn'.closed
            /\ wire' = wire /\ srv' = srv /\ inbox' = inbox
       /\ \A t \in Threads :
            WritesClosed(t) =>
                /\ pc'[t] = "idle"
                /\ ctx'[t].result = "InterfaceError"
                /\ sockLock' = 0]_vars

\* After Connection.close a fetch that needed a refill has failed.
C23_Witness ==
    /\ conn.closed
    /\ pc[1] = "idle" /\ ctx[1].op = "fetch" /\ ctx[1].result = "InterfaceError"
    /\ sockLock = 0
    /\ wire.burst = <<MTerminate>>

\* ----------------------------------------------------------- Cursor.close
\* The operations of a cursor.
CursorOps == {"execute", "executemany", "fetch", "curclose", "copy_from",
              "copy_to"}

\* The step is the call of a cursor operation by thread t.
CallsCursor(t) ==
    /\ pc[t] = "idle" /\ ctx'[t] # ctx[t]
    /\ ctx'[t].op \in CursorOps

\* C24: on a closed cursor every cursor operation fails at once with
\* CursorClosedError or InterfaceError and writes nothing; on a cursor that
\* was never executed a fetch fails with ProgrammingError.
C24_ClosedCursorRefusesOperations ==
    [][\A t \in Threads :
         CallsCursor(t) =>
            /\ cur[t].closed =>
                  /\ pc'[t] = "idle"
                  /\ ctx'[t].result \in {"CursorClosedError", "InterfaceError"}
                  /\ wire' = wire
            /\ (~cur[t].closed /\ cur[t].stmt = NoPs /\ ctx'[t].op = "fetch") =>
                  /\ pc'[t] = "idle"
                  /\ ctx'[t].result = "ProgrammingError"]_vars

\* ------------------------------------------------- read_dict, descriptors
\* A row descriptor: the column names of a RowDescription, or None.
Desc(names) == [set |-> TRUE, fields |-> names]
NoDesc == [set |-> FALSE, fields |-> <<>>]

\* What read_tuple returns: a tuple of values, or None after the last row.
Row(values) == [none |-> FALSE, values |-> values]
NoRow == [none |-> TRUE, values |-> <<>>]

\* What read_dict returns: a dict, None, or an error.
DictResult(error, none, dict) == [error |-> error, none |-> none, dict |-> dict]

\* retval[col_name] = value
SetItem(retval, col_name, value) ==
    [k \in DOMAIN retval \cup {col_name} |->
        IF k = col_name THEN value ELSE retval[k]]

\* The loop of read_dict over the fields of the descriptor, from index i.
RECURSIVE ReadDictLoop(_, _, _, _)
ReadDictLoop(fields, row, i, retval) ==
    IF i > Len(fields)
    THEN DictResult("none", FALSE, retval)
    ELSE IF fields[i] \in DOMAIN retval
         THEN DictResult("InterfaceError", FALSE, <<>>)
         ELSE ReadDictLoop(fields, row, i + 1,
                           SetItem(retval, fields[i], row[i]))

\* PreparedStatement.read_dict on statement p, whose read_tuple returns
\* p.row.  The descriptor is read from the attribute bind_row_desc.
read_dict(p) ==
    IF p.row.none
    THEN DictResult("none", TRUE, <<>>)
    ELSE IF "bind_row_desc" \notin DOMAIN p
         THEN DictResult("AttributeError", FALSE, <<>>)
         ELSE ReadDictLoop(p.bind_row_desc.fields, p.row.values, 1, <<>>)

\* PreparedStatement.get_row_description: the fallback reads the attribute
\* statment_row_desc.
get_row_description(p) ==
    IF p.portal_row_desc.set
    THEN [error |-> "none", desc |-> p.portal_row_desc]
    ELSE IF "statment_row_desc" \notin DOMAIN p
         THEN [error |-> "AttributeError", desc |-> NoDesc]
         ELSE [error |-> "none", desc |-> p.statment_row_desc]

ColumnNames == {"a", "b"}
MaxColumns == 2
ColumnValues == {1, 2}

SeqsUpTo(S, n) == UNION {[1..k -> S] : k \in 0..n}

Descs == {NoDesc} \cup {Desc(f) : f \in SeqsUpTo(ColumnNames, MaxColumns)}

\* The attributes of an executed PreparedStatement that the two methods use.
DictStmt(statement, portal, row) ==
    [statement_row_desc |-> statement, portal_row_desc |-> portal, row |-> row]

InitDict ==
    /\ InitCommon
    /\ row_cache_size = 1
    /\ opsLeft = [t \in Threads |-> 0]
    /\ emptyQueries = FALSE
    /\ \/ \E portal \in Descs \ {NoDesc, Desc(<<>>)},
               statement \in Descs \ {NoDesc} :
            \E row \in {NoRow} \cup
                        {Row(v) : v \in [1..Len(portal.fields) -> ColumnValues]} :
               pure = [op |-> "read_dict", step |-> "input",
                       p |-> DictStmt(statement, portal, row),
                       r |-> DictResult("none", TRUE, <<>>)]
       \/ \E portal \in Descs, statement \in Descs \ {NoDesc} :
            pure = [op |-> "get_row_description", step |-> "input",
                    p |-> DictStmt(statement, portal, NoRow),
                    r |-> [error |-> "none", desc |-> NoDesc]]

ReadDict ==
    /\ pure.op = "read_dict" /\ pure.step = "input"
    /\ pure' = [pure EXCEPT !.step = "returned", !.r = read_dict(pure.p)]
    /\ UNCHANGED connVars

GetRowDescription ==
    /\ pure.op = "get_row_description" /\ pure.step = "input"
    /\ pure' = [pure EXCEPT !.step = "returned",
                            !.r = get_row_description(pure.p)]
    /\ UNCHANGED connVars

NextDict == ReadDict \/ GetRowDescription

SpecDict == InitDict /\ [][NextDict]_vars

\* The names of the descriptor are pairwise different.
Distinct(fields) ==
    \A i, j \in 1..Len(fields) : fields[i] = fields[j] => i = j

\* The mapping from each column name of the descriptor to the row's value.
RowMapping(fields, values) ==
    [n \in {fields[i] : i \in 1..Len(fields)} |->
        values[CHOOSE i \in 1..Len(fields) : fields[i] = n]]

\* C25: read_dict returns None after the last row, InterfaceError when two
\* columns of the portal-level descriptor share a name, and otherwise the
\* mapping from the descriptor's column names to the row's values;
\* get_row_description returns the portal-level descriptor when there is one
\* and the statement-level descriptor otherwise.
C25_ReadDictMapsColumnNames ==
    pure.step = "returned" =>
       /\ pure.op = "read_dict" =>
             pure.r = CASE pure.p.row.none -> DictResult("none", TRUE, <<>>)
                        [] ~Distinct(pure.p.portal_row_desc.fields) ->
                              DictResult("InterfaceError", FALSE, <<>>)
                        [] OTHER ->
                              DictResult("none", FALSE,
                                         RowMapping(pure.p.portal_row_desc.fields,
                                                    pure.p.row.values))
       /\ pure.op = "get_row_description" =>
             pure.r = [error |-> "none",
                       desc |-> IF pure.p.portal_row_desc.set
                                THEN pure.p.portal_row_desc
                                ELSE pure.p.statement_row_desc]

\* ---------------------------------------------------------------- rowcount
\* row_count after a message of the backend was received: a CommandComplete
\* whose tag is counted (m.a) carries the count m.b.
RowCountAfter(row_count, m) ==
    IF m.tag = "C" /\ m.a # 0
    THEN IF row_count = -1 THEN m.b ELSE row_count + m.b
    ELSE row_count

\* The step only appends one message to the inbox: a notification arrives.
Arrives ==
    /\ Len(inbox') = Len(inbox) + 1
    /\ SubSeq(inbox', 1, Len(inbox)) = inbox

\* The step is taken by thread t.
Steps(t) ==
    \/ pc'[t] # pc[t]
    \/ ctx'[t] # ctx[t]
    \/ pc[t] = "dispatch" /\ inbox' # inbox /\ ~Arrives

\* C26: the start of an execute sets the statement's row_count to -1, every
\* CommandComplete with a counted tag received for the statement replaces the
\* -1 by its count or adds its count, nothing else changes row_count, and
\* Cursor.execute copies the value to the cursor's rowcount when it returns.
C26_RowCountSumsCountedTags ==
    [][\A t \in Threads :
         LET id == ctx[t].ps
         IN  (Steps(t) /\ id # NoPs /\ ps[id] # NoObject /\ ps'[id] # NoObject) =>
                /\ pc[t] = "ps_lock" => ps'[id].row_count = -1
                /\ pc[t] = "dispatch" =>
                      ps'[id].row_count =
                         RowCountAfter(ps[id].row_count, Head(inbox))
                /\ pc[t] \notin {"ps_lock", "dispatch"} =>
                      ps'[id].row_count = ps[id].row_count
                /\ (pc[t] = "ps_unlock" /\ ctx[t].op = "execute"
                       /\ id \notin {BeginPs, CommitPs, RollbackPs}) =>
                      cur'[t].row_count = ps[id].row_count]_vars

\* An INSERT was executed and the cursor's rowcount is the count of its tag.
C26_Witness ==
    \E t \in Threads :
       /\ pc[t] = "idle" /\ ctx[t].op = "execute" /\ ctx[t].result = "ok"
       /\ cur[t].stmt # NoPs /\ ps[cur[t].stmt].sql.k = "insert"
       /\ ps[cur[t].stmt].n_cc = 1
       /\ cur[t].row_count = 1

\* A counted CommandComplete is about to be added to a count received before.
C26_AddsWitness ==
    \E t \in Threads :
       /\ pc[t] = "dispatch" /\ inbox # <<>> /\ ctx[t].ps # NoPs
       /\ Head(inbox).tag = "C" /\ Head(inbox).a # 0
       /\ ps[ctx[t].ps] # NoObject /\ ps[ctx[t].ps].row_count # -1

\* ------------------------------------------------------------ socket errors
\* C27: a socket error or timeout raised while a request is written or a
\* response is read ends the call with InterfaceError, and the socket lock
\* is free when the call has ended.
C27_SocketErrorsBecomeInterfaceError ==
    [][conn'.faults > conn.faults =>
         \A t \in Threads :
            (pc[t] \in {"send", "dispatch"} /\ pc'[t] = "idle") =>
               /\ ctx'[t].result = "InterfaceError"
               /\ sockLock' # t]_vars

\* The socket lock is free after a call that a socket error ended.
C27_LockReleased ==
    \A t \in Threads :
       (pc[t] = "idle" /\ ctx[t].result \in SocketErrors) => sockLock # t

\* ------------------------------------------------------- rejected queries
\* The query or the parameters of the call are rejected by the client.
ClientRejects(sql) == CtorError(sql) # "none" \/ EncodeError(sql) # "none"

\* Thread t writes a burst to the socket in this step.
Writes(t) ==
    /\ pc[t] = "send"
    /\ srv' # srv \/ inbox' # inbox \/ wire' # wire

\* C28: a call of execute or executemany whose query cannot be translated or
\* whose parameters cannot be inspected or encoded writes nothing to the
\* socket.
C28_RejectedCallWritesNothing ==
    [][\A t \in Threads :
         (Writes(t) /\ ctx[t].op \in {"execute", "executemany"}) =>
            ~ClientRejects(ctx[t].sql)]_vars

\* A call with a rejected query or parameter ends with the client's error,
\* or with the error of a closed cursor or connection.
C28_RejectedCallFails ==
    \A t \in Threads :
       (pc[t] = "idle" /\ ctx[t].op \in {"execute", "executemany"}
          /\ ClientRejects(ctx[t].sql)) =>
          ctx[t].result \in {"QueryParameterParseError", "NotSupportedError",
                             "ArrayDimensionsNotConsistentError",
                             "InterfaceError", "CursorClosedError"}

\* --------------------------------------------------------- ParameterStatus
\* The step reads a ParameterStatus message in thread t's handle_messages.
ReadsStatus(t) ==
    /\ pc[t] = "dispatch" /\ inbox # <<>>
    /\ Head(inbox).tag = "S"
    /\ inbox' # inbox

\* The flags are updated from the message's key and value as claimed (codec
\* names are compared in lower case).
FlagsUpdated(m) ==
    LET key == m.p[1]
        value == m.p[2]
    IN  /\ conn'.client_encoding =
              IF key = "client_encoding"
              THEN Get(pg_to_py_encodings, Lower(value), Lower(value))
              ELSE conn.client_encoding
        /\ conn'.integer_datetimes =
              IF key = "integer_datetimes" THEN value = "on"
              ELSE conn.integer_datetimes

\* C29: every ParameterStatus message read updates client_encoding or
\* integer_datetimes from its key and value, leaves both unchanged for any
\* other key, and the subscribers of ParameterStatusReceived are called once
\* with it.
C29_ParameterStatusUpdatesAndNotifies ==
    [][\A t \in Threads :
         ReadsStatus(t) =>
            /\ FlagsUpdated(Head(inbox))
            /\ conn'.status_fired = conn.status_fired + 1]_vars

\* The flags alone: every ParameterStatus message read updates them.
C29_FlagsUpdated ==
    [][\A t \in Threads : ReadsStatus(t) => FlagsUpdated(Head(inbox))]_vars

\* ------------------------------------------------------ read_tuple refill
\* The step is read_tuple's send_EXECUTE by thread t.
Refills(t) ==
    /\ pc[t] = "send" /\ pc'[t] # "send"
    /\ ctx[t].phase = "exec"

\* C30: read_tuple sends an Execute only for a statement whose row cache is
\* empty and whose portal is suspended, as the burst Execute, Sync, Flush
\* written under the socket lock; and no Execute is sent for a portal, by
\* read_tuple or by a handler, after a CommandComplete was received for it.
C30_RefillOnlyWhenSuspended ==
    [][\A t \in Threads :
         LET id == ctx[t].ps
         IN  /\ Refills(t) =>
                   /\ ctx[t].meth = "read_tuple"
                   /\ ps[id].cached_rows = <<>>
                   /\ ps[id].portal_suspended
                   /\ sockLock = t
                   /\ wire' # wire =>
                         wire'.burst = <<MExecute(ps[id].portal_name,
                                                  row_cache_size),
                                         MSync, MFlush>>
             /\ (id # NoPs /\ ps[id] # NoObject /\ ps'[id] # NoObject
                    /\ ps'[id].n_exec = ps[id].n_exec + 1) =>
                   ps[id].n_cc = 0]_vars

\* read_tuple has sent its Execute and reads the answer under the lock.
C30_Witness ==
    \E t \in Threads :
       /\ pc[t] = "dispatch" /\ ctx[t].phase = "exec"
       /\ ctx[t].meth = "read_tuple"
       /\ sockLock = t
       /\ wire.burst = <<MExecute(ps[ctx[t].ps].portal_name, row_cache_size),
                         MSync, MFlush>>
       /\ ps[ctx[t].ps].n_exec = 2

\* ------------------------------------------------------- the first Execute
\* The step reads the answer to the Describe-portal of thread t's bind.
ReadsPortalDesc(t) ==
    /\ pc[t] = "dispatch" /\ ctx[t].phase = "bind"
    /\ inbox # <<>> /\ Head(inbox).tag \in {"T", "n"}
    /\ inbox' # inbox
    /\ ctx[t].ps # NoPs /\ ps[ctx[t].ps].statement_row_desc # NoneDesc

\* C31: the dispatch loop of a bind that reads the portal-level
\* RowDescription or NoData writes the portal's first Execute in the same
\* step, with row limit row_cache_size or 0, while the thread holds the
\* socket lock; the burst written before it is the Bind burst, which holds
\* no Sync; and a bind that returned with a portal descriptor has sent it.
C31_FirstExecuteInBindDispatch ==
    [][\A t \in Threads :
         LET id == ctx[t].ps
         IN  /\ ReadsPortalDesc(t) =>
                   /\ sockLock = t /\ pc'[t] = "dispatch" /\ sockLock' = t
                   /\ wire.burst = bind_burst(ps[id])
                   /\ \A i \in 1..Len(wire.burst) : wire.burst[i] # MSync
                   /\ ps[id].n_exec = 0 /\ ps'[id].n_exec = 1
                   /\ wire'.burst =
                         <<MExecute(ps[id].portal_name,
                                    IF Head(inbox).tag = "T"
                                    THEN row_cache_size ELSE 0),
                           MSync, MFlush>>
             /\ (pc'[t] = "after_bind" /\ pc[t] = "dispatch"
                    /\ ps'[id].portal_row_desc # NoneDesc) =>
                   ps'[id].n_exec >= 1]_vars

\* A bind has returned after its dispatch loop sent the first Execute.
C31_Witness ==
    \E t \in Threads :
       /\ pc[t] = "after_bind"
       /\ ps[ctx[t].ps].portal_row_desc # NoneDesc
       /\ ps[ctx[t].ps].n_exec = 1
       /\ ctx[t].op = "execute" /\ ctx[t].ps \notin {BeginPs, CommitPs, RollbackPs}

\* ------------------------------------------------- ErrorResponse in a Bind
\* The step reads the message at the head of the inbox, of the given tag, in
\* the dispatch loop that thread t runs for a statement.
ReadsTag(t, tag) ==
    /\ pc[t] = "dispatch" /\ ctx[t].ps # NoPs
    /\ inbox # <<>> /\ Head(inbox).tag = tag
    /\ inbox' # inbox

\* The Bind of thread t is written and BindComplete was not read yet: the
\* last message the call read is of an earlier exchange.
MidBind(t) ==
    /\ pc[t] = "dispatch" /\ ctx[t].phase = "bind"
    /\ ctx[t].last \in {"", "Z"}

\* What a step that reads an ErrorResponse does when it resynchronizes
\* (the flag is cleared and exactly one Sync is written, which the backend
\* answers with ReadyForQuery) and when it does not (nothing is written).
ErrorStep(t, syncs) ==
    /\ pc'[t] = "dispatch" /\ sockLock' = t
    /\ ctx'[t].error # "none"
    /\ ~conn'.binding
    /\ IF syncs
       THEN /\ wire'.burst = <<MSync>>
            /\ inbox' = Tail(inbox) \o <<inbox'[Len(inbox')]>>
            /\ inbox'[Len(inbox')].tag = "Z"
       ELSE /\ wire'.burst = wire.burst
            /\ inbox' = Tail(inbox) /\ srv' = srv

\* The ReadyForQuery read with a latched error ends the call with it.
RaisesAtReady(t) ==
    (ReadsTag(t, "Z") /\ ctx[t].error # "none") =>
       /\ pc'[t] = "idle"
       /\ ctx'[t].result = ctx[t].error
       /\ sockLock' # t

\* C32: an ErrorResponse read while a Bind is unanswered clears the binding
\* flag and writes exactly one Sync, one read at any other time writes
\* nothing; in both cases the loop goes on reading, and the ReadyForQuery
\* that follows ends the call with the error and the socket lock released.
C32_BindErrorResynchronizes ==
    [][\A t \in Threads :
         /\ ReadsTag(t, "E") => ErrorStep(t, MidBind(t))
         /\ RaisesAtReady(t)]_vars

\* The same with the binding flag in the place of the unanswered Bind.
C32_ErrorSyncsByFlag ==
    [][\A t \in Threads :
         /\ ReadsTag(t, "E") => ErrorStep(t, conn.binding)
         /\ RaisesAtReady(t)]_vars

\* --------------------------------------------------------- row descriptors
\* Slot id holds the same statement object before and after the step.
SameStatement(id) ==
    /\ ps[id] # NoObject /\ ps'[id] # NoObject
    /\ ~\E t \in Threads :
          ctx'[t].ps = id /\ ctx'[t].meth = "ctor" /\ ctx[t].meth # "ctor"

\* The step reads a RowDescription or NoData for statement id in the given
\* phase of some thread's call.
ReadsDesc(id, phase) ==
    \E t \in Threads :
       /\ ctx[t].ps = id /\ ctx[t].phase = phase
       /\ ReadsTag(t, "T") \/ ReadsTag(t, "n")

\* The step is the start of an execute of statement id.
StartsExecute(id) ==
    \E t \in Threads : ctx[t].ps = id /\ pc[t] = "ps_lock" /\ pc'[t] = "lock"

\* C33: statement_row_desc, once set, never changes, and it is set only by
\* the RowDescription or NoData read in the statement's Parse exchange;
\* portal_row_desc is None after the first step of every execute and is set
\* only by the RowDescription or NoData read in an execute's Bind exchange.
C33_DescriptorsSetOncePerExchange ==
    [][\A id \in PsIds :
         SameStatement(id) =>
            /\ ps[id].statement_row_desc # NoneDesc =>
                  ps'[id].statement_row_desc = ps[id].statement_row_desc
            /\ ps'[id].statement_row_desc # ps[id].statement_row_desc =>
                  ReadsDesc(id, "parse")
            /\ StartsExecute(id) => ps'[id].portal_row_desc = NoneDesc
            /\ (ps'[id].portal_row_desc # ps[id].portal_row_desc
                   /\ ~StartsExecute(id)) =>
                  /\ ReadsDesc(id, "bind")
                  /\ ps[id].portal_row_desc = NoneDesc]_vars

\* A statement is executed again: its statement-level descriptor is the one
\* of its Parse, its portal-level descriptor was reset and set again.
C33_Witness ==
    \E t \in Threads :
       /\ pc[t] = "after_bind" /\ ctx[t].op = "executemany"
       /\ ctx[t].sets = 1
       /\ ps[ctx[t].ps].statement_row_desc # NoneDesc
       /\ ps[ctx[t].ps].portal_row_desc # NoneDesc

\* ------------------------------------------------- statement/portal names
\* The module-level counters statement_number and portal_number with their
\* locks, and the threads of the process that construct prepared statements
\* (counter "statement") and execute them (counter "portal").  number and
\* lock are the globals; mine is the value a thread read for its name, tmp
\* the value it loaded for the increment; names are the names generated.
Counters == {"statement", "portal"}
MaxNameOps == 2

InitNames ==
    /\ InitCommon
    /\ row_cache_size = 1
    /\ opsLeft = [t \in Threads |-> 0]
    /\ emptyQueries = FALSE
    /\ pure = [op |-> "names",
               number |-> [k \in Counters |-> 0],
               lock |-> [k \in Counters |-> 0],
               at |-> [t \in Threads |-> "idle"],
               counter |-> [t \in Threads |-> "statement"],
               mine |-> [t \in Threads |-> 0],
               tmp |-> [t \in Threads |-> 0],
               left |-> [t \in Threads |-> MaxNameOps],
               names |-> <<>>]

\* A thread calls PreparedStatement(...) or PreparedStatement.execute.
NameCall(t) ==
    /\ pure.at[t] = "idle" /\ pure.left[t] > 0
    /\ \E k \in Counters :
         pure' = [pure EXCEPT !.at[t] = "acquire", !.counter[t] = k,
                              !.left[t] = @ - 1]
    /\ UNCHANGED connVars

\* statement_number_lock.acquire() / portal_number_lock.acquire()
CounterLock_nolock(t) ==
    /\ pure.at[t] = "acquire"
    /\ pure' = [pure EXCEPT !.at[t] = "read", !.lock[pure.counter[t]] = t]
    /\ UNCHANGED connVars

CounterLock(t) ==
    /\ pure.at[t] = "acquire"
    /\ pure.lock[pure.counter[t]] = 0
    /\ pure' = [pure EXCEPT !.at[t] = "read", !.lock[pure.counter[t]] = t]
    /\ UNCHANGED connVars

\* self._statement_number = statement_number, or the portal_number read
\* for self.portal_name.
CounterRead(t) ==
    /\ pure.at[t] = "read"
    /\ pure' = [pure EXCEPT !.at[t] = "load",
                            !.mine[t] = pure.number[pure.counter[t]]]
    /\ UNCHANGED connVars

\* statement_number += 1 / portal_number += 1: the load ...
CounterLoad(t) ==
    /\ pure.at[t] = "load"
    /\ pure' = [pure EXCEPT !.at[t] = "store",
                            !.tmp[t] = pure.number[pure.counter[t]]]
    /\ UNCHANGED connVars

\* ... and the store of the sum.
CounterStore(t) ==
    /\ pure.at[t] = "store"
    /\ pure' = [pure EXCEPT !.at[t] = "release",
                            !.number[pure.counter[t]] = pure.tmp[t] + 1]
    /\ UNCHANGED connVars

\* The finally clause releases the lock; the name is built from the value
\* read.
CounterUnlock(t) ==
    /\ pure.at[t] = "release"
    /\ pure' = [pure EXCEPT
                  !.at[t] = "idle",
                  !.lock[pure.counter[t]] =
                      IF @ = t THEN 0 ELSE @,
                  !.names = Append(@, IF pure.counter[t] = "statement"
                                      THEN StmtName(pure.mine[t])
                                      ELSE PortalName(pure.mine[t]))]
    /\ UNCHANGED connVars

NextNames ==
    \E t \in Threads :
        \/ NameCall(t)
        \/ CounterLock(t)
        \/ CounterRead(t)
        \/ CounterLoad(t)
        \/ CounterStore(t)
        \/ CounterUnlock(t)

SpecNames == InitNames /\ [][NextNames]_vars

\* C34: no two generated statement names and no two portal names are equal,
\* and a thread reads and increments a counter only while it holds the
\* counter's lock.
C34_GeneratedNamesUnique ==
    pure.op = "names" =>
       /\ \A i, j \in 1..Len(pure.names) :
             pure.names[i] = pure.names[j] => i = j
       /\ \A t \in Threads :
             pure.at[t] \in {"read", "load", "store", "release"} =>
                pure.lock[pure.counter[t]] = t

\* Two threads have each generated statement and portal names.
C34_Witness ==
    /\ pure.op = "names"
    /\ Len(pure.names) = NThreads * MaxNameOps
    /\ \E i, j \in 1..Len(pure.names) :
          i # j /\ pure.names[i][1] = pure.names[j][1]

\* ------------------------------------------------------- array dimensions
\* The lengths of a rectangular nested list, outermost dimension first.
RECURSIVE ListShape(_)
ListShape(a) ==
    <<Len(a.v)>> \o (IF a.v[1].t = "list" THEN ListShape(a.v[1]) ELSE <<>>)

RECURSIVE Product(_)
Product(lengths) ==
    IF lengths = <<>> THEN 1 ELSE Head(lengths) * Product(Tail(lengths))

\* The elements of a nested list in row-major order.
RECURSIVE RowMajor(_)
RowMajor(a) ==
    IF a.t # "list" THEN <<a>>
    ELSE IF a.v = <<>> THEN <<>>
    ELSE RowMajor(a.v[1]) \o RowMajor(ListV(Tail(a.v)))

\* An array was encoded.
ArraySent ==
    pure.op = "array_inspect" /\ pure.step = "sent" /\ pure.r.error = "none"

\* C35: for a list the encoder accepts, the number of dimensions written is
\* the nesting depth, the lengths written are the list's own lengths,
\* outermost first, each with lower bound 1, their product is the number of
\* elements written, and the elements are written in row-major order, None
\* as a null.
C35_ArrayDimensionsWritten ==
    ArraySent =>
       LET shape == ListShape(pure.value)
           elems == RowMajor(pure.value)
       IN  /\ pure.data.ndim = Len(shape)
           /\ pure.data.dims = [i \in DOMAIN shape |-> <<shape[i], 1>>]
           /\ Product([i \in DOMAIN pure.data.dims |-> pure.data.dims[i][1]])
                 = Len(pure.data.elems)
           /\ pure.data.elems =
                 [i \in DOMAIN elems |->
                    [null |-> elems[i] = NoneV, v |-> elems[i]]]

\* ------------------------------------------- statements and transactions
\* The step writes an Execute for the statement id.
ExecuteSent(id) ==
    /\ id # NoPs /\ ps[id] # NoObject /\ ps'[id] # NoObject
    /\ ps'[id].n_exec = ps[id].n_exec + 1

\* C36: with autocommit off, in every interleaving of the threads, the
\* Execute of a statement of Cursor.execute is written while the backend
\* is in a transaction block (after a BEGIN with no COMMIT or ROLLBACK
\* since), and the Execute of the BEGIN that Cursor.execute runs first is
\* written only while the backend is in no transaction block.
C36_StatementsInsideTransaction ==
    [][\A t \in Threads :
         (~conn.autocommit /\ ctx[t].op = "execute" /\ Steps(t)
             /\ ExecuteSent(ctx[t].ps)) =>
            IF ctx[t].ps = BeginPs THEN srv.tx = "I"
            ELSE srv.tx \in {"T", "E"}]_vars

\* ------------------------------------------------------- the binding flag
\* Thread t is inside Connection.bind with the socket lock: it encodes and
\* writes its Bind, or reads the answers.
InsideBind(t) ==
    /\ sockLock = t
    /\ ctx[t].phase = "bind"
    /\ pc[t] \in {"send", "dispatch"}

\* C37: the binding flag is set only while some thread is inside bind with
\* the socket lock; once the call has returned or raised, also when a
\* parameter encoder raised, the flag is false (on a connection that is
\* still open, where a later exchange can read it).
C37_BindingOnlyInsideBind ==
    (conn.binding /\ ~conn.closed) => \E t \in Threads : InsideBind(t)

\* ------------------------------------------------- parameters of a Bind
\* make_params: the entry (oid, send function) of a value's type, from
\* py_types or, for an int, from inspect_int.
IntSend(oid) ==
    CASE oid = 21 -> "h_pack"
      [] oid = 23 -> "i_pack"
      [] oid = 20 -> "q_pack"
      [] OTHER -> "numeric_send"

make_param(value) ==
    CASE value.t = "NoneType" -> [oid |-> -1, send |-> "null"]
      [] value.t = "bool" -> [oid |-> 16, send |-> "bool"]
      [] value.t = "float" -> [oid |-> 701, send |-> "d_pack"]
      [] value.t = "str" -> [oid |-> 705, send |-> "textout"]
      [] OTHER -> [oid |-> inspect_int(value.num),
                   send |-> IntSend(inspect_int(value.num))]

make_params(values) == [i \in DOMAIN values |-> make_param(values[i])]

\* The bytes a send function returns: len of them, holding the payload of.
Bytes(len, of) == [error |-> "none", len |-> len, of |-> of]

NoBytes == Bytes(0, "")

SendRaises(e) == [error |-> e, len |-> 0, of |-> ""]

\* struct's pack of an integer format, whose range is lo <= v < hi.
PackInt(len, lo, v, hi) ==
    IF v.t \in {"int", "bool"} /\ ~Less(v.num, lo) /\ Less(v.num, hi)
    THEN Bytes(len, v.num) ELSE SendRaises("struct.error")

\* The send functions: the None entry's lambda returns i_pack(-1) for any
\* value; the bool entry's lambda tests its argument's truth; the packs
\* raise struct.error for what is no number of their range; textout calls
\* the value's encode.  (numeric_send is applied to integers only.)
send_func(send, v) ==
    CASE send = "null" -> Bytes(4, Pow2(0, -1))
      [] send = "bool" ->
           Bytes(1, IF (v.t \in Numbers /\ v.num # Pow2(0, 0)) \/ v.t = "str"
                    THEN Pow2(0, 1) ELSE Pow2(0, 0))
      [] send = "h_pack" -> PackInt(2, min_int2, v, max_int2)
      [] send = "i_pack" -> PackInt(4, min_int4, v, max_int4)
      [] send = "q_pack" -> PackInt(8, min_int8, v, max_int8)
      [] send = "d_pack" ->
           IF v.t \in Numbers THEN Bytes(8, v.num)
           ELSE SendRaises("struct.error")
      [] send = "textout" ->
           IF v.t = "str" THEN Bytes(1, "a") ELSE SendRaises("AttributeError")
      [] send = "numeric_send" /\ v.t = "int" -> Bytes(8, v.num)

\* What bind writes for one parameter: the length and the value's bytes,
\* or for the oid -1 the send function's bytes alone, which are the length
\* -1 of a NULL.
BindParam(param, value) ==
    LET val == send_func(param.send, value)
    IN  IF val.error # "none" THEN val
        ELSE IF param.oid # -1 THEN val
        ELSE [NoBytes EXCEPT !.len = val.of.off]

\* bind: the values of the call go through the send functions in ps.params.
BindParams(params, values) ==
    LET n == IF Len(values) < Len(params) THEN Len(values) ELSE Len(params)
        sent == [i \in 1..n |-> BindParam(params[i], values[i])]
        failed == {i \in 1..n : sent[i].error # "none"}
    IN  IF failed = {} THEN [error |-> "none", sent |-> sent]
        ELSE [error |-> sent[CHOOSE i \in failed : \A j \in failed : i <= j].error,
              sent |-> <<>>]

\* The values of a parameter and the lengths of a parameter tuple.
ParamValues ==
    {NoneV, BoolV, FloatV, StrV}
    \cup {IntV(i) : i \in {Pow2(0, 0), Pow2(0, 1), max_int2, max_int4}}

MaxParams == 2

ParamTuples == UNION {[1..n -> ParamValues] : n \in 1..MaxParams}

\* A statement is made from the first argument tuple, first, and executed
\* with the tuple values: first itself in Cursor.execute and in the first
\* round of executemany, any tuple in the later rounds.
InitParams ==
    /\ InitCommon
    /\ row_cache_size = 1
    /\ opsLeft = [t \in Threads |-> 0]
    /\ emptyQueries = FALSE
    /\ \E first \in ParamTuples :
       \E values \in {v \in ParamTuples : Len(v) = Len(first)} :
          pure = [op |-> "bind_params", step |-> "input", first |-> first,
                  values |-> values, params |-> <<>>, error |-> "none",
                  sent |-> <<>>]

\* PreparedStatement.__init__: self.params = make_params(first).
MakeParams ==
    /\ pure.op = "bind_params" /\ pure.step = "input"
    /\ pure' = [pure EXCEPT !.step = "made", !.params = make_params(pure.first)]
    /\ UNCHANGED connVars

\* PreparedStatement.execute(values): bind encodes the call's values.
BindValues ==
    /\ pure.op = "bind_params" /\ pure.step = "made"
    /\ LET r == BindParams(pure.params, pure.values)
       IN  pure' = [pure EXCEPT !.step = "bound", !.error = r.error,
                                !.sent = r.sent]
    /\ UNCHANGED connVars

NextParams == MakeParams \/ BindValues

SpecParams == InitParams /\ [][NextParams]_vars

\* The bind of a call has run.
Bound == pure.op = "bind_params" /\ pure.step = "bound"

\* C38: the Bind of a call carries the encoding of that call's values: no
\* encoder raises, a parameter is written as NULL (length -1) exactly when
\* the call's value is None, and any other value is written as bytes that
\* hold this value, whatever the first argument tuple was.
C38_BindCarriesCallValues ==
    Bound =>
       /\ pure.error = "none"
       /\ \A i \in DOMAIN pure.values :
             LET v == pure.values[i]
                 own == BindParam(make_param(v), v)
             IN  /\ pure.sent[i].len = -1 <=> v = NoneV
                 /\ v # NoneV => pure.sent[i].of = own.of

\* ------------------------------------------------- reading past the end
\* Thread t is in a fetch of a statement whose read_tuple has already
\* returned None since its last execute, which met no error.
ReadsPastEnd(t) ==
    /\ cur[t].done
    /\ ctx[t].op = "fetch" /\ ctx[t].meth = "read_tuple"
    /\ ps[ctx[t].ps].n_err = 0

\* C40: after read_tuple has returned None for a portal, a further
\* read_tuple of it writes nothing to the socket (so no second Close of the
\* portal is sent) and ends with None.
C40_ReadPastEndWritesNothing ==
    [][\A t \in Threads :
         ReadsPastEnd(t) =>
            /\ ~Writes(t)
            /\ (pc[t] # "idle" /\ pc'[t] = "idle") => ctx'[t].result = "None"]_vars

\* ----------------------------------------------------------- termination
\* A step of thread t inside a call of Cursor.execute, fetchone,
\* Cursor.close, commit or rollback.
ThreadStep(t) ==
    \/ AcquireUnnamed(t)
    \/ PsExecute(t)
    \/ SockAcquire(t)
    \/ Send(t)
    \/ Dispatch(t)
    \/ AfterParse(t)
    \/ AfterBind(t)
    \/ PsReturn(t)
    \/ ReadTuple(t)
    \/ RtCheck(t)
    \/ AfterCloseP(t)

\* The calls: both threads execute a query of one row, thread 2 commits or
\* rolls back, thread 1 fetches and closes its cursor.
LiveCall(t) ==
    \/ StartExecute(t) /\ ctx'[t].op = "execute"
                       /\ ctx'[t].sql = Sql("select", 1, t)
    \/ t = 2 /\ StartCommit(t)
    \/ t = 1 /\ StartFetch(t)
    \/ t = 1 /\ StartCursorClose(t)

NextLive == \E t \in Threads : LiveCall(t) \/ ThreadStep(t)

InitLive == Init /\ row_cache_size = 1

\* Every thread that can run infinitely often is run: the interpreter
\* switches threads at intervals, and a lock that is released again and
\* again is given to a thread that waits for it.  When a call is started is
\* up to the application.
SpecLive ==
    InitLive /\ [][NextLive]_vars /\ \A t \in Threads : SF_vars(ThreadStep(t))

Holds(t) ==
    {"unnamed" : x \in {1} \cap (IF unnamedLock = t THEN {1} ELSE {})}
    \cup {"statement" : i \in {i \in PsIds : psLock[i] = t}}
    \cup {"socket" : x \in {1} \cap (IF sockLock = t THEN {1} ELSE {})}

\* A thread between calls holds no lock; a thread that waits for the
\* unnamed-statement lock holds none, one that waits for a statement's lock
\* holds at most the unnamed-statement lock, one that waits for the socket
\* lock does not hold it.
LockOrder ==
    \A t \in Threads :
       /\ pc[t] = "idle" => Holds(t) = {}
       /\ pc[t] = "unnamed_lock" => Holds(t) = {}
       /\ pc[t] \in {"ps_lock", "rt_lock"} => Holds(t) \subseteq {"unnamed"}
       /\ pc[t] = "lock" => "socket" \notin Holds(t)

====
